---------------------------- MODULE Spec2Model ----------------------------
(***************************************************************************)
(* Beam-steering and telemetry aggregation engine of the AFSUAM            *)
(* measurement system: the voltage LUT (core/beam_lut.py), the actuator    *)
(* (core/mcu_controller.py), the telemetry map (core/rfid_reader.py), the  *)
(* tag registry (core/tag_manager.py) and the sweep protocol               *)
(* (protocols/afsuam.py, protocols/base.py).                               *)
(*                                                                         *)
(* Units.  Angles are in tenths of a degree (the protocol rounds dense     *)
(* angles to one decimal), voltages in millivolts (the actuator command    *)
(* prints three decimals), RSSI in tenths of a dB.  A Python None is the   *)
(* empty sequence and a value v that may be None is <<v>>.                 *)
(***************************************************************************)
EXTENDS Integers, Sequences, FiniteSets, TLC

(***************************************************************************)
(* Bounds of the model.                                                    *)
(***************************************************************************)
MaxRepeats == 2
MaxBeamSteps == 3
MaxRuns == 2
MaxRunsAgg == 1
MaxReports == 1
MaxReportsAgg == 3
MaxLockReports == 3
MaxLockSteps == 2
MaxReportsMatch == 2
MaxReportsInv == 2
MaxReportsCal == 2
MaxReaderOps == 5

(***************************************************************************)
(* Program constants.                                                      *)
(***************************************************************************)
VMin == 0
VMax == 8500
SuffixLen == 4
HighMargin == 30
MedMargin == 10
DenseStart == 300
DefaultLeft == 300
DefaultCenter == 0
DefaultRight == -300

None == <<>>
Some(v) == <<v>>
IsNone(o) == o = <<>>
Val(o) == o[1]

SeqToSet(s) == {s[i] : i \in 1..Len(s)}
Abs(n) == IF n < 0 THEN -n ELSE n

(***************************************************************************)
(* Python's min and max of two arguments, as the clamps use them.          *)
(***************************************************************************)
PyMin(a, b) == IF b < a THEN b ELSE a
PyMax(a, b) == IF b > a THEN b ELSE a

\* A clamp that forgets the upper bound (used to test the voltage claims).
ClampNoUpper(v) == PyMax(VMin, v)
\* max(0.0, min(8.5, v))
Clamp(v) == PyMax(VMin, PyMin(VMax, v))

(***************************************************************************)
(* EPCs and suffixes are sequences of characters (small numbers here).     *)
(***************************************************************************)
EndsWith(epc, suffix) ==
    /\ Len(suffix) <= Len(epc)
    /\ SubSeq(epc, Len(epc) - Len(suffix) + 1, Len(epc)) = suffix

\* epc[-4:] if len(epc) >= 4 else ""
Last4(epc) ==
    IF Len(epc) >= SuffixLen
    THEN SubSeq(epc, Len(epc) - SuffixLen + 1, Len(epc))
    ELSE <<>>

(***************************************************************************)
(* The angle-to-voltage LUT.  A LUT file is a record: whether the file     *)
(* exists, whether it has the Angle_Cmd_Deg column, and its rows           *)
(* <<angle, port configuration, V_CH1, V_CH2>>.                            *)
(***************************************************************************)
LutFull ==
    [exists |-> TRUE, hasAngleCol |-> TRUE,
     rows |-> << <<0, 0, 4000, 4000>>, <<-200, 0, 8000, 200>>,
                 <<200, 0, 500, 8300>>,
                 <<-300, 1, 1000, 7000>>, <<100, 1, 5000, 3000>>,
                 <<300, 1, 7000, 1000>> >>]
LutConfig0Only ==
    [exists |-> TRUE, hasAngleCol |-> TRUE,
     rows |-> << <<-100, 0, 6000, 2500>>, <<150, 0, 2500, 6000>> >>]
LutSingleRow ==
    [exists |-> TRUE, hasAngleCol |-> TRUE,
     rows |-> << <<-200, 0, 8000, 200>>, <<200, 0, 500, 8300>>,
                 <<50, 1, 3000, 3000>> >>]
LutMissing ==
    [exists |-> FALSE, hasAngleCol |-> TRUE, rows |-> << >>]
LutNoAngleCol ==
    [exists |-> TRUE, hasAngleCol |-> FALSE,
     rows |-> << <<0, 0, 4000, 4000>>, <<100, 0, 3000, 5000>> >>]

RECURSIVE SelectRows(_, _)
SelectRows(rows, config) ==
    IF rows = << >> THEN << >>
    ELSE IF Head(rows)[2] = config
         THEN <<Head(rows)>> \o SelectRows(Tail(rows), config)
         ELSE SelectRows(Tail(rows), config)

\* self._config_0 / self._config_1 after _load
ConfigRows(lut, config) ==
    IF lut.exists THEN SelectRows(lut.rows, config) ELSE << >>

\* self.loaded after _load: interp1d needs two points, and the angle column
LutLoaded(lut) ==
    /\ lut.exists
    /\ \A c \in {0, 1} :
         ConfigRows(lut, c) # << >> =>
            /\ lut.hasAngleCol
            /\ Len(ConfigRows(lut, c)) >= 2

\* whether self._interp[config] holds interpolators
HasInterp(lut, config) ==
    /\ lut.exists
    /\ \A c \in 0..config :
         ConfigRows(lut, c) # << >> =>
            lut.hasAngleCol /\ Len(ConfigRows(lut, c)) >= 2
    /\ ConfigRows(lut, config) # << >>

RECURSIVE InsertByAngle(_, _)
InsertByAngle(row, sorted) ==
    IF sorted = << >> THEN <<row>>
    ELSE IF row[1] < Head(sorted)[1] THEN <<row>> \o sorted
         ELSE <<Head(sorted)>> \o InsertByAngle(row, Tail(sorted))

RECURSIVE SortByAngle(_)
SortByAngle(rows) ==
    IF rows = << >> THEN << >>
    ELSE InsertByAngle(Head(rows), SortByAngle(Tail(rows)))

\* scipy interp1d(kind="linear", fill_value="extrapolate") at x over the
\* column col (3 or 4) of rows: the points are sorted, the segment is the one
\* around x, or the first or last one outside the sampled range.
Interp(rows, col, x) ==
    LET s == SortByAngle(rows)
        n == Len(s)
        below == Cardinality({i \in 1..n : s[i][1] < x})
        hi == PyMax(2, PyMin(n, below + 1))
        lo == hi - 1
    IN  s[lo][col] + ((x - s[lo][1]) * (s[hi][col] - s[lo][col]))
                        \div (s[hi][1] - s[lo][1])

\* a configuration used as it is given
ConfigAsGiven(port_config) == port_config
\* "port_config if port_config in [0, 1] else 0"
EffectiveConfig(port_config) ==
    IF port_config \in {0, 1} THEN port_config ELSE 0

\* CorrectedBeamLUT.get_voltages
get_voltages(lut, port_config, target_angle) ==
    IF ~LutLoaded(lut) THEN <<0, 0>>
    ELSE LET config == EffectiveConfig(port_config)
         IN  IF ~HasInterp(lut, config) THEN <<0, 0>>
             ELSE <<Clamp(Interp(ConfigRows(lut, config), 3, target_angle)),
                    Clamp(Interp(ConfigRows(lut, config), 4, target_angle))>>

\* whether get_available_angles raises (KeyError: no Angle_Cmd_Deg column)
AnglesRaise(lut, port_config) ==
    LET rows == IF port_config = 0 THEN ConfigRows(lut, 0)
                ELSE ConfigRows(lut, 1)
    IN  rows # << >> /\ ~lut.hasAngleCol

\* CorrectedBeamLUT.get_available_angles: the sorted distinct angles
get_available_angles(lut, port_config) ==
    LET rows == IF port_config = 0 THEN ConfigRows(lut, 0)
                ELSE ConfigRows(lut, 1)
    IN  {rows[i][1] : i \in 1..Len(rows)}

SetMax(S) == CHOOSE m \in S : \A y \in S : y <= m
SetMin(S) == CHOOSE m \in S : \A y \in S : m <= y
\* min(sorted angles, key=abs): the first of the smallest absolute value
MinAbs(S) ==
    LET a == SetMin({Abs(y) : y \in S})
    IN  IF (-a) \in S THEN -a ELSE a

\* a LUT that ignores its coverage (used to test the claim on the presets)
DefaultPresetsAlways(lut, port_config) ==
    [LEFT |-> DefaultLeft, CENTER |-> DefaultCenter, RIGHT |-> DefaultRight]
\* CorrectedBeamLUT.get_beam_presets
get_beam_presets(lut, port_config) ==
    LET angles == get_available_angles(lut, port_config)
    IN  IF angles = {}
        THEN [LEFT |-> DefaultLeft, CENTER |-> DefaultCenter,
              RIGHT |-> DefaultRight]
        ELSE [LEFT |-> SetMax(angles), CENTER |-> MinAbs(angles),
              RIGHT |-> SetMin(angles)]


(***************************************************************************)
(* PhaseLUT.  Phases are in hundredths of a degree.  A phase table is a    *)
(* record: whether the file exists and its rows <<voltage, Olcum1_Shift,   *)
(* Olcum2_Shift>>; a missing file gives the fallback rows.                 *)
(***************************************************************************)
FullTurn == 36000

\* the fallback data of PhaseLUT._load
PhaseFallback ==
    [exists |-> FALSE, rows |-> << >>]
FallbackRows == << <<0, 0, 0>>, <<8500, 36342, 36343>> >>

\* a measured table whose phase stays below a full turn
PhaseMeasured ==
    [exists |-> TRUE,
     rows |-> << <<0, 0, 0>>, <<4000, 15000, 16000>>,
                 <<8500, 34000, 35000>> >>]

PhaseRows(table) == IF table.exists THEN table.rows ELSE FallbackRows

\* the column of a channel: Olcum2_Shift for channel 4, Olcum1_Shift else
PhaseCol(channel) == IF channel = 4 THEN 3 ELSE 2

\* the points (phase, voltage) of _func_p1_to_v / _func_p4_to_v
PhaseToVoltRows(table, channel) ==
    [i \in 1..Len(PhaseRows(table)) |->
        <<PhaseRows(table)[i][PhaseCol(channel)], PhaseRows(table)[i][1]>>]

\* "% 360.0" of PhaseLUT.get_phase
Wrapped(phase) == phase % FullTurn

\* PhaseLUT.get_phase
get_phase(table, voltage, channel) ==
    Wrapped(Interp(PhaseRows(table), PhaseCol(channel), Clamp(voltage)))

\* PhaseLUT.get_voltage
get_voltage(table, target_phase, channel) ==
    Clamp(Interp(PhaseToVoltRows(table, channel), 2, target_phase))


(***************************************************************************)
(* The tag registry (TagManager) is a sequence of tags.                    *)
(***************************************************************************)
Tag1 == [suffix |-> <<0, 0, 0, 1>>, label |-> "T1"]
Tag2 == [suffix |-> <<0, 0, 0, 2>>, label |-> "T2"]
TagShort == [suffix |-> <<0, 3>>, label |-> "T3"]

\* EPCs the field can hold: one per tag, and one of no registered tag
EpcTag1 == <<7, 0, 0, 0, 1>>
EpcTag2 == <<7, 0, 0, 0, 2>>
EpcShort == <<7, 7, 7, 0, 3>>
EpcOther == <<7, 7, 7, 7, 7>>

\* TagManager.suffixes
suffixes(tags) == [i \in 1..Len(tags) |-> tags[i].suffix]

RECURSIVE SelectSeq2(_, _)
SelectSeq2(s, keep) ==
    IF s = << >> THEN << >>
    ELSE IF Head(s) \in keep THEN <<Head(s)>> \o SelectSeq2(Tail(s), keep)
         ELSE SelectSeq2(Tail(s), keep)

\* a registry that reports every tag as missed (used to test the claim on
\* the union's missed list)
AllTagsMissed(tags, seen_suffixes) == suffixes(tags)
\* TagManager.get_missed_tags, as the list of the missed tags' suffixes
get_missed_tags(tags, seen_suffixes) ==
    SelectSeq2(suffixes(tags), SeqToSet(suffixes(tags)) \ seen_suffixes)

(***************************************************************************)
(* The telemetry map RFIDReader.inventory: a dict, so a sequence of        *)
(* entries in insertion order with one entry per EPC.                      *)
(***************************************************************************)
IndexOfEpc(inv, epc) ==
    IF \E i \in 1..Len(inv) : inv[i].epc = epc
    THEN CHOOSE i \in 1..Len(inv) : inv[i].epc = epc
    ELSE 0

\* line 265: self.inventory.get(epc, {}).get("count", 0)
PrevCount(inv, epc) ==
    IF IndexOfEpc(inv, epc) = 0 THEN 0 ELSE inv[IndexOfEpc(inv, epc)].count

\* a map with one entry per EPC and antenna (used to test the claim that an
\* EPC is attributed to one antenna)
StoreTagPerAntenna(inv, tag_data) ==
    LET Same(e) == e.epc = tag_data.epc /\ e.antenna = tag_data.antenna
    IN  IF \E i \in 1..Len(inv) : Same(inv[i])
        THEN [inv EXCEPT ![CHOOSE i \in 1..Len(inv) : Same(inv[i])] =
                            tag_data]
        ELSE Append(inv, tag_data)
\* line 267: self.inventory[epc] = tag_data
StoreTag(inv, tag_data) ==
    IF IndexOfEpc(inv, tag_data.epc) = 0 THEN Append(inv, tag_data)
    ELSE [inv EXCEPT ![IndexOfEpc(inv, tag_data.epc)] = tag_data]

\* tag.get("AntennaID", 1) of RFIDReader._parse_tag_report: the id of the
\* report, 1 when the report has none
AntennaOf(antenna_id) == IF antenna_id = None THEN 1 ELSE Val(antenna_id)

\* the locked section of RFIDReader._handle_tag_report
handle_tag_report(inv, epc, rssi, phase, antenna) ==
    StoreTag(inv, [epc |-> epc, rssi |-> rssi, phase |-> phase,
                   antenna |-> antenna, count |-> PrevCount(inv, epc) + 1])

RECURSIVE FilterAntenna(_, _)
FilterAntenna(inv, two) ==
    IF inv = << >> THEN << >>
    ELSE IF (Head(inv).antenna = 2) = two
         THEN <<Head(inv)>> \o FilterAntenna(Tail(inv), two)
         ELSE FilterAntenna(Tail(inv), two)

\* a split that keeps for antenna 1 only the entries of antenna id 1 (used
\* to test the claim that the split is a partition)
SplitByExactId(inventory) ==
    LET IsOne(info) == info.antenna = 1
        IsTwo(info) == info.antenna = 2
    IN  <<SelectSeq(inventory, IsOne), SelectSeq(inventory, IsTwo)>>
\* BaseProtocol._split_inventory_by_antenna
split_inventory_by_antenna(inventory) ==
    <<FilterAntenna(inventory, FALSE), FilterAntenna(inventory, TRUE)>>

\* BaseProtocol._find_tag_info: the first entry whose EPC ends with suffix
find_tag_info(inv, suffix) ==
    IF \E i \in 1..Len(inv) : EndsWith(inv[i].epc, suffix)
    THEN LET k == CHOOSE i \in 1..Len(inv) :
                     /\ EndsWith(inv[i].epc, suffix)
                     /\ \A j \in 1..(i - 1) : ~EndsWith(inv[j].epc, suffix)
         IN  [seen |-> TRUE, rssi |-> Some(inv[k].rssi),
              count |-> inv[k].count, phase |-> Some(inv[k].phase)]
    ELSE [seen |-> FALSE, rssi |-> None, count |-> 0, phase |-> None]

\* the ant*_targets set of _collect_step: epc[-4:] of the entries whose
\* last four characters are a registered suffix
StepTargets(inv, tags) ==
    {Last4(inv[i].epc) : i \in {j \in 1..Len(inv) :
                                  Last4(inv[j].epc) \in SeqToSet(suffixes(tags))}}

EpcSet(inv) == {inv[i].epc : i \in 1..Len(inv)}

(***************************************************************************)
(* AFSUAMProtocol._collect_step after the snapshot: the StepResult, the    *)
(* TagStepResults and the raw sets.  The fields repeat and step are the    *)
(* loop variables repeat and current_step at the time of the call, kept    *)
(* to tell the steps of one repeat from those of another.                  *)
(***************************************************************************)
StepResultOf(inventory, tags, beam_state, angle, volts, repeat, step) ==
    LET inv1 == split_inventory_by_antenna(inventory)[1]
        inv2 == split_inventory_by_antenna(inventory)[2]
        t1 == StepTargets(inv1, tags)
        t2 == StepTargets(inv2, tags)
    IN  [beam_state |-> beam_state, angle_deg |-> angle,
         v_ch1 |-> IF volts = None THEN None ELSE Some(Val(volts)[1]),
         v_ch2 |-> IF volts = None THEN None ELSE Some(Val(volts)[2]),
         tags_total |-> Len(tags),
         ant1_unique_epc_n |-> Len(inv1),
         ant1_targets_seen_n |-> Cardinality(t1),
         ant1_epcs |-> EpcSet(inv1),
         ant1_targets |-> t1,
         ant1_missed |-> get_missed_tags(tags, t1),
         ant2_unique_epc_n |-> Len(inv2),
         ant2_targets_seen_n |-> Cardinality(t2),
         ant2_epcs |-> EpcSet(inv2),
         ant2_targets |-> t2,
         ant2_missed |-> get_missed_tags(tags, t2),
         repeat |-> repeat, step |-> step]

TagStepsOf(inventory, tags, beam_state, repeat, step) ==
    LET inv1 == split_inventory_by_antenna(inventory)[1]
        inv2 == split_inventory_by_antenna(inventory)[2]
    IN  [i \in 1..Len(tags) |->
           LET f1 == find_tag_info(inv1, tags[i].suffix)
               f2 == find_tag_info(inv2, tags[i].suffix)
           IN  [beam_state |-> beam_state,
                tag_label |-> tags[i].label,
                tag_suffix |-> tags[i].suffix,
                ant1_seen |-> f1.seen, ant1_rssi |-> f1.rssi,
                ant1_count |-> f1.count, ant1_phase |-> f1.phase,
                ant2_seen |-> f2.seen, ant2_rssi |-> f2.rssi,
                ant2_count |-> f2.count, ant2_phase |-> f2.phase,
                repeat |-> repeat, step |-> step]]


(***************************************************************************)
(* The beam sequence of AFSUAMProtocol.run.                                *)
(***************************************************************************)
\* round(num / den) for den > 0
RoundDiv(num, den) == (2 * num + den) \div (2 * den)

\* float(round(np.linspace(30.0, -30.0, n)[i], 1)), i from 0
DenseAngle(n, i) ==
    RoundDiv(DenseStart * (n - 1) - 2 * DenseStart * i, n - 1)

\* f"BEAM_{int(angle) if angle.is_integer() else angle}"
BeamLabel(angle) ==
    IF angle % 10 = 0 THEN "BEAM_" \o ToString(angle \div 10)
    ELSE "BEAM_" \o (IF angle < 0 THEN "-" ELSE "")
           \o ToString(Abs(angle) \div 10) \o "." \o ToString(Abs(angle) % 10)

\* the list steps of run: (name, angle) per beam state
BeamSequence(lut, port_config, active_antennas, beam_steps) ==
    IF 1 \notin active_antennas
    THEN << [name |-> "FIXED", angle |-> 0] >>
    ELSE IF beam_steps = 3
    THEN LET presets == get_beam_presets(lut, port_config)
         IN  << [name |-> "LEFT", angle |-> presets.LEFT],
                [name |-> "CENTER", angle |-> presets.CENTER],
                [name |-> "RIGHT", angle |-> presets.RIGHT] >>
    ELSE IF beam_steps < 2
    THEN << [name |-> BeamLabel(0), angle |-> 0] >>
    ELSE [i \in 1..beam_steps |->
            [name |-> BeamLabel(DenseAngle(beam_steps, i - 1)),
             angle |-> DenseAngle(beam_steps, i - 1)]]

\* whether the code before the try block of run raises
PreludeRaises(lut, port_config, active_antennas, beam_steps) ==
    /\ 1 \in active_antennas
    /\ beam_steps = 3
    /\ AnglesRaise(lut, port_config)

(***************************************************************************)
(* The per-repeat aggregation of AFSUAMProtocol.run.                       *)
(***************************************************************************)
\* the keys of {name: None for name in beam_names}, in insertion order
RECURSIVE DictKeys(_, _)
DictKeys(names, seen) ==
    IF names = << >> THEN << >>
    ELSE IF Head(names) \in seen THEN DictKeys(Tail(names), seen)
         ELSE <<Head(names)>> \o DictKeys(Tail(names), seen \cup {Head(names)})

BeamNames(stepSeq) == [i \in 1..Len(stepSeq) |-> stepSeq[i].name]

\* tag_best_beam as initialised for a repeat
InitBestBeam(tags, stepSeq) ==
    [s \in SeqToSet(suffixes(tags)) |->
       [ant1 |-> [b \in SeqToSet(BeamNames(stepSeq)) |-> None],
        ant2 |-> [b \in SeqToSet(BeamNames(stepSeq)) |-> None]]]

\* the loop "for ts in tag_steps" of run, one TagStepResult at a time
RECURSIVE TrackRssi(_, _, _)
TrackRssi(tbb, tag_steps, beam_state) ==
    IF tag_steps = << >> THEN tbb
    ELSE LET ts == Head(tag_steps)
             s == ts.tag_suffix
             a1 == IF ts.ant1_seen /\ ts.ant1_rssi # None
                   THEN [tbb EXCEPT ![s].ant1[beam_state] = ts.ant1_rssi]
                   ELSE tbb
             a2 == IF ts.ant2_seen /\ ts.ant2_rssi # None
                   THEN [a1 EXCEPT ![s].ant2[beam_state] = ts.ant2_rssi]
                   ELSE a1
         IN  TrackRssi(a2, Tail(tag_steps), beam_state)

\* rssi_list: the (beam, rssi) pairs with a reading, in dict order
RECURSIVE RssiList(_, _)
RssiList(names, beam_data) ==
    IF names = << >> THEN << >>
    ELSE IF beam_data[Head(names)] # None
         THEN << <<Head(names), Val(beam_data[Head(names)])>> >>
                 \o RssiList(Tail(names), beam_data)
         ELSE RssiList(Tail(names), beam_data)

\* a descending sort that puts a pair behind the pairs of equal RSSI that
\* follow it in the list (used to test the claim about ties)
RECURSIVE InsertDescAfterEqual(_, _)
InsertDescAfterEqual(pair, sorted) ==
    IF sorted = << >> THEN <<pair>>
    ELSE IF pair[2] > Head(sorted)[2] THEN <<pair>> \o sorted
         ELSE <<Head(sorted)>> \o InsertDescAfterEqual(pair, Tail(sorted))

\* list.sort(key=rssi, reverse=True): stable, descending
RECURSIVE InsertDesc(_, _)
InsertDesc(pair, sorted) ==
    IF sorted = << >> THEN <<pair>>
    ELSE IF pair[2] >= Head(sorted)[2] THEN <<pair>> \o sorted
         ELSE <<Head(sorted)>> \o InsertDesc(pair, Tail(sorted))

RECURSIVE SortDesc(_)
SortDesc(l) ==
    IF l = << >> THEN << >>
    ELSE InsertDesc(Head(l), SortDesc(Tail(l)))

\* buckets with strict comparisons (used to test the verdict claims)
ConfidenceStrict(margin) ==
    IF margin > HighMargin THEN "HIGH"
    ELSE IF margin > MedMargin THEN "MED"
    ELSE "LOW"
\* lines 245-250: the confidence bucket of a margin
Confidence(margin) ==
    IF margin >= HighMargin THEN "HIGH"
    ELSE IF margin >= MedMargin THEN "MED"
    ELSE "LOW"

\* a lone reading scored as a tie of two (used to test the verdict claims)
SingleAsTie(best_beam, best_rssi) ==
    [beam |-> best_beam, rssi |-> Some(best_rssi), seen_n |-> 1,
     margin |-> Some(0), tie |-> 1, conf |-> "LOW"]
\* lines 251-257: the verdict of a single reading
SingleVerdict(best_beam, best_rssi) ==
    [beam |-> best_beam, rssi |-> Some(best_rssi), seen_n |-> 1,
     margin |-> None, tie |-> 0, conf |-> "SINGLE"]

\* an antenna that is never taken as disabled (used to test the isolation
\* claim)
NeverDisabled(antenna, active_antennas) == FALSE
\* lines 260-261: ant1_disabled, ant2_disabled
IsDisabled(antenna, active_antennas) == antenna \notin active_antennas

\* compute_best(beam_data, is_disabled); names are the keys of beam_data in
\* dict order
compute_best(names, beam_data, is_disabled) ==
    IF is_disabled
    THEN [beam |-> "DISABLED", rssi |-> None, seen_n |-> 0, margin |-> None,
          tie |-> 0, conf |-> "DISABLED"]
    ELSE LET rssi_list == SortDesc(RssiList(names, beam_data))
             seen_n == Len(rssi_list)
         IN  IF seen_n = 0
             THEN [beam |-> "MISS", rssi |-> None, seen_n |-> 0,
                   margin |-> None, tie |-> 0, conf |-> "NONE"]
             ELSE IF seen_n >= 2
             THEN LET margin == rssi_list[1][2] - rssi_list[2][2]
                  IN  [beam |-> rssi_list[1][1],
                       rssi |-> Some(rssi_list[1][2]),
                       seen_n |-> seen_n, margin |-> Some(margin),
                       tie |-> IF margin = 0 THEN 1 ELSE 0,
                       conf |-> Confidence(margin)]
             ELSE SingleVerdict(rssi_list[1][1], rssi_list[1][2])

\* a dict that holds every key, with 0 for None (used to test the claim that
\* the entries of a UnionResult are well formed)
EveryKey(f) == [k \in DOMAIN f |-> IF f[k] = None THEN 0 ELSE Val(f[k])]
\* a dict that holds only the keys whose value is not None
Present(f) == [k \in {x \in DOMAIN f : f[x] # None} |-> Val(f[k])]

\* the UnionResult built at the end of a repeat
UnionResultOf(tags, stepSeq, active_antennas, u, tbb, repeat) ==
    LET names == DictKeys(BeamNames(stepSeq), {})
        ant1_enabled == 1 \in active_antennas
        ant2_enabled == 2 \in active_antennas
        b1 == [s \in DOMAIN tbb |->
                 compute_best(names, tbb[s].ant1,
                             IsDisabled(1, active_antennas))]
        b2 == [s \in DOMAIN tbb |->
                 compute_best(names, tbb[s].ant2,
                             IsDisabled(2, active_antennas))]
    IN  [repeat |-> repeat,
         tags_total |-> Len(tags),
         ant1_unique_epcs |-> Cardinality(u.ant1_epcs),
         ant2_unique_epcs |-> Cardinality(u.ant2_epcs),
         ant1_targets_seen |-> Cardinality(u.ant1_targets),
         ant2_targets_seen |-> Cardinality(u.ant2_targets),
         ant1_missed |-> IF ant1_enabled
                         THEN get_missed_tags(tags, u.ant1_targets)
                         ELSE << >>,
         ant2_missed |-> IF ant2_enabled
                         THEN get_missed_tags(tags, u.ant2_targets)
                         ELSE << >>,
         ant1_best_beam |-> [s \in DOMAIN tbb |-> b1[s].beam],
         ant2_best_beam |-> [s \in DOMAIN tbb |-> b2[s].beam],
         ant1_best_rssi |-> Present([s \in DOMAIN tbb |-> b1[s].rssi]),
         ant2_best_rssi |-> Present([s \in DOMAIN tbb |-> b2[s].rssi]),
         ant1_seen_beams_n |-> [s \in DOMAIN tbb |-> b1[s].seen_n],
         ant2_seen_beams_n |-> [s \in DOMAIN tbb |-> b2[s].seen_n],
         ant1_best_margin |-> Present([s \in DOMAIN tbb |-> b1[s].margin]),
         ant2_best_margin |-> Present([s \in DOMAIN tbb |-> b2[s].margin]),
         ant1_tie_flag |-> [s \in DOMAIN tbb |-> b1[s].tie],
         ant2_tie_flag |-> [s \in DOMAIN tbb |-> b2[s].tie],
         ant1_best_confidence |-> [s \in DOMAIN tbb |-> b1[s].conf],
         ant2_best_confidence |-> [s \in DOMAIN tbb |-> b2[s].conf]]

\* MCUController.set_voltage: cmd is the pair handed to the serial port, or
\* None when the MCU is not connected; ok is the value returned, False when
\* the MCU is not connected or the serial write raises
set_voltage(connected, write_raises, v_ch1, v_ch2) ==
    IF ~connected THEN [cmd |-> None, ok |-> FALSE]
    ELSE [cmd |-> Some(<<PyMax(VMin, PyMin(VMax, v_ch1)),
                         PyMax(VMin, PyMin(VMax, v_ch2))>>),
          ok |-> ~write_raises]


(***************************************************************************)
(* State.                                                                  *)
(***************************************************************************)
VARIABLES
    world,           \* the collaborators: reader, MCU, LUT, registry, field
    stop_requested,  \* BaseProtocol._stop_requested
    inventory,       \* RFIDReader.inventory
    pc,              \* where run is
    cfg,             \* the arguments of the run in progress
    steps,           \* the beam sequence of the run
    repeat,          \* loop variable of the outer loop
    beam_i,          \* position of the inner loop in steps
    current_step,    \* current_step of run
    any_tags,        \* <<any_ant1_tags, any_ant2_tags>>
    union,           \* union_ant1_epcs ... union_ant2_targets
    tag_best_beam,   \* tag_best_beam of the repeat
    volts,           \* v1, v2 of the step in progress
    result,          \* the ProtocolResult of the run
    hwlog,           \* history: hardware operations of the run
    progress,        \* history: fractions passed to the progress callback
    nReports,        \* history: tag reports ingested
    runs,            \* history: runs started
    stop_in_run,     \* history: stop() was called during this run
    steps_at_stop,   \* history: step_results at that call
    started_at_stop, \* history: current_step at that call
    stop_observed,   \* history: a stop check of this run saw the flag
    repeats_passed,  \* history: repeats that passed the stop check of the
                     \* outer loop
    at_raise,        \* history: the result lists when a step raised
    since_clear,     \* history: per EPC, the reports accepted since the
                     \* last clear_data (their number and the last one)
    snap,            \* history: the last get_all_data and since_clear then
    lock,            \* RFIDReader._lock: the thread that holds it
    lst,             \* the listener thread inside _handle_tag_report
    orc,             \* the orchestrator thread inside _collect_step
    cal              \* a caller of PhaseLUT: its arguments and results

runVars == <<cfg, steps, repeat, beam_i, current_step, any_tags, union,
             tag_best_beam, volts>>
histVars == <<hwlog, progress, nReports, runs, stop_in_run, steps_at_stop,
              started_at_stop, stop_observed, repeats_passed, at_raise>>
\* the variables AFSUAMProtocol.run does not touch
otherVars == <<lock, lst, orc, cal>>
vars == <<world, stop_requested, inventory, pc, runVars, result, histVars,
          since_clear, snap, otherVars>>

\* the values of dwell_s the caller passes: time.sleep raises on the first
DwellValues == {-1, 3}
\* str(e) of what the progress callback raises: an exception may carry no text
CallbackMessages == {"", "callback failed"}
ActiveSets == {{1}, {2}, {1, 2}}

Configs(kind) ==
    IF kind = "ctl"
    THEN [repeats : 1..MaxRepeats, port_config : {0},
          active_antennas : ActiveSets, beam_steps : 1..MaxBeamSteps,
          dwell_s : DwellValues]
    ELSE [repeats : {1}, port_config : {0},
          active_antennas : ActiveSets, beam_steps : {3},
          dwell_s : IF kind = "match" THEN DwellValues ELSE {3}]

Worlds ==
    [kind : {"ctl"}, reader_connected : BOOLEAN, mcu_connected : BOOLEAN,
     write_raises : BOOLEAN, antenna_ids : {{Some(1), Some(2)}},
     lut : {LutFull, LutNoAngleCol},
     tags : {<<Tag1>>}, epcs : {{EpcTag1}}, rssis : {{-600}},
     max_reports : {MaxReports}, max_runs : {MaxRuns}]

\* one run with a working actuator and a two-row table, for the progress of
\* run
WorldsLive ==
    [kind : {"ctl"}, reader_connected : BOOLEAN, mcu_connected : BOOLEAN,
     write_raises : {FALSE}, antenna_ids : {{Some(1), Some(2)}},
     lut : {LutConfig0Only},
     tags : {<<Tag1>>}, epcs : {{EpcTag1}}, rssis : {{-600}},
     max_reports : {MaxReports}, max_runs : {MaxRunsAgg}]

\* one tag read at several signal strengths; two tags read at one strength
WorldsAgg ==
    [kind : {"agg"}, reader_connected : {TRUE}, mcu_connected : {TRUE},
     write_raises : {FALSE}, antenna_ids : {{Some(1), Some(2)}},
     lut : {LutFull},
     tags : {<<Tag1>>}, epcs : {{EpcTag1}},
     rssis : {{-600, -595, -590, -570}},
     max_reports : {MaxReportsAgg}, max_runs : {MaxRunsAgg}]
    \cup
    [kind : {"agg"}, reader_connected : {TRUE}, mcu_connected : {TRUE},
     write_raises : {FALSE}, antenna_ids : {{Some(1), Some(2)}},
     lut : {LutFull},
     tags : {<<Tag1, Tag2>>}, epcs : {{EpcTag1, EpcTag2}},
     rssis : {{-600}},
     max_reports : {MaxReportsAgg}, max_runs : {MaxRunsAgg}]

\* a registry with a four-character and a two-character suffix; reports
\* without an AntennaID and from a third antenna port
WorldsMatch ==
    [kind : {"match"}, reader_connected : {TRUE}, mcu_connected : {TRUE},
     write_raises : {FALSE}, antenna_ids : {{None, Some(2), Some(3)}},
     lut : {LutFull},
     tags : {<<Tag1, TagShort>>}, epcs : {{EpcTag1, EpcShort, EpcOther}},
     rssis : {{-600}},
     max_reports : {MaxReportsMatch}, max_runs : {MaxRunsAgg}]

\* a reader in the field of two tags, for the threads around the lock
WorldsLock ==
    [kind : {"lock"}, reader_connected : {TRUE}, mcu_connected : {TRUE},
     write_raises : {FALSE}, antenna_ids : {{Some(1), Some(2)}},
     lut : {LutFull},
     tags : {<<Tag1, Tag2>>}, epcs : {{EpcTag1, EpcTag2}},
     rssis : {{-600, -590}},
     max_reports : {MaxLockReports}, max_runs : {0}]

\* a fold that keeps only the last beam state (used to test coverage claims)
FoldUnionLastOnly(u, epcs1, epcs2, targets1, targets2) ==
    [ant1_epcs |-> epcs1, ant2_epcs |-> epcs2,
     ant1_targets |-> targets1, ant2_targets |-> targets2]
\* lines 202-206: the raw sets of a step folded into the repeat's union
FoldUnion(u, epcs1, epcs2, targets1, targets2) ==
    [ant1_epcs |-> u.ant1_epcs \cup epcs1,
     ant2_epcs |-> u.ant2_epcs \cup epcs2,
     ant1_targets |-> u.ant1_targets \cup targets1,
     ant2_targets |-> u.ant2_targets \cup targets2]

\* a clear_data that clears nothing (used to test the sampling-window claim)
KeptInventory(inv) == inv
\* clear_data, line 210: self.inventory = {}
ClearedInventory(inv) == << >>

\* no report accepted since the last clear_data
NoReports(w) == [e \in w.epcs |-> None]

\* one more report accepted for epc
Accept(since, epc, rssi, antenna) ==
    [since EXCEPT ![epc] =
        Some([count |-> (IF @ = None THEN 0 ELSE Val(@).count) + 1,
              rssi |-> rssi, antenna |-> antenna,
              antennas |-> (IF @ = None THEN {} ELSE Val(@).antennas)
                              \cup {antenna}])]

\* the listener thread outside _handle_tag_report
ListenerIdle == [pc |-> "idle", report |-> None, prev_count |-> 0]

EmptyUnion ==
    [ant1_epcs |-> {}, ant2_epcs |-> {}, ant1_targets |-> {},
     ant2_targets |-> {}]

\* ProtocolResult as constructed by run
NewResult(w, c, stepSeq) ==
    [success |-> TRUE, error_message |-> "", end_time |-> "",
     protocol_repeats |-> c.repeats,
     beam_sequence |-> BeamNames(stepSeq),
     active_antennas |-> c.active_antennas,
     mcu_connected |-> w.mcu_connected,
     reader_connected |-> w.reader_connected,
     ant1_health |-> IF 1 \in c.active_antennas THEN "OK" ELSE "DISABLED",
     ant2_health |-> IF 2 \in c.active_antennas THEN "OK" ELSE "DISABLED",
     step_results |-> << >>, tag_step_results |-> << >>,
     union_results |-> << >>]

NoConfig ==
    [repeats |-> 0, port_config |-> 0, active_antennas |-> {},
     beam_steps |-> 0, dwell_s |-> 0]

InitWith(W) ==
    /\ world \in W
    /\ stop_requested = FALSE
    /\ inventory = << >>
    /\ pc = "idle"
    /\ cfg = NoConfig
    /\ steps = << >>
    /\ repeat = 0
    /\ beam_i = 0
    /\ current_step = 0
    /\ any_tags = <<FALSE, FALSE>>
    /\ union = EmptyUnion
    /\ tag_best_beam = << >>
    /\ volts = None
    /\ result = NewResult(world, NoConfig, << >>)
    /\ hwlog = << >>
    /\ progress = << >>
    /\ nReports = 0
    /\ runs = 0
    /\ stop_in_run = FALSE
    /\ steps_at_stop = << >>
    /\ started_at_stop = 0
    /\ stop_observed = FALSE
    /\ repeats_passed = 0
    /\ at_raise = None
    /\ since_clear = NoReports(world)
    /\ snap = None
    /\ lock = "free"
    /\ lst = ListenerIdle
    /\ orc = [pc |-> "idle", steps |-> 0]

NoCall ==
    [table |-> PhaseFallback, channel |-> 1, v |-> 0, stage |-> "none",
     phase |-> 0, back |-> 0]

Init == InitWith(Worlds) /\ cal = NoCall
InitAgg == InitWith(WorldsAgg) /\ cal = NoCall
InitLock == InitWith(WorldsLock) /\ cal = NoCall
InitMatch == InitWith(WorldsMatch) /\ cal = NoCall
InitLive == InitWith(WorldsLive) /\ cal = NoCall

InRun == pc \notin {"idle", "returned", "escaped"}

(***************************************************************************)
(* BaseProtocol.stop, from any thread at any time.                         *)
(***************************************************************************)
\* the measurements of the run so far: the step_results of a ProtocolResult,
\* the points of a CalibrationResult
Measured(r) ==
    IF "step_results" \in DOMAIN r THEN r.step_results ELSE r.points

Stop ==
    /\ stop_requested' = TRUE
    /\ IF InRun /\ ~stop_in_run
       THEN /\ stop_in_run' = TRUE
            /\ steps_at_stop' = Measured(result)
            /\ started_at_stop' = current_step
       ELSE UNCHANGED <<stop_in_run, steps_at_stop, started_at_stop>>
    /\ UNCHANGED <<since_clear, snap, otherVars>>
    /\ UNCHANGED <<world, inventory, pc, runVars, result, hwlog, progress,
                   nReports, runs, stop_observed, repeats_passed, at_raise>>

(***************************************************************************)
(* RFIDReader._handle_tag_report for one report of the listener thread.    *)
(***************************************************************************)
TagReport ==
    /\ world.reader_connected
    /\ nReports < world.max_reports
    /\ \E epc \in world.epcs, rssi \in world.rssis,
          antenna_id \in world.antenna_ids :
         LET antenna == AntennaOf(antenna_id)
         IN  /\ inventory' = handle_tag_report(inventory, epc, rssi, 0,
                                               antenna)
             /\ since_clear' = Accept(since_clear, epc, rssi, antenna)
    /\ nReports' = nReports + 1
    /\ UNCHANGED <<snap, otherVars>>
    /\ UNCHANGED <<world, stop_requested, pc, runVars, result, hwlog,
                   progress, runs, stop_in_run, steps_at_stop,
                   started_at_stop, stop_observed, repeats_passed, at_raise>>

(***************************************************************************)
(* Pieces of AFSUAMProtocol.run used by the actions below.                 *)
(***************************************************************************)
\* a stop check that never breaks (used to test the cancellation claims)
NeverBreak(flag) == FALSE
\* "if self._stop_requested: break", lines 154-155 and 174-175
ShouldBreak(flag) == flag

\* a step whose results are dropped when stop() came during it (used to test
\* the claim that a step in flight completes)
AppendStepUnlessStopped(r, sr, tss) ==
    IF stop_requested THEN r
    ELSE [r EXCEPT !.step_results = Append(@, sr),
                   !.tag_step_results = @ \o tss]
\* a step that records only the tags it saw (used to test the claim of one
\* TagStepResult per step and registered tag)
AppendStepSeenTags(r, sr, tss) ==
    LET Seen(ts) == ts.ant1_seen \/ ts.ant2_seen
    IN  [r EXCEPT !.step_results = Append(@, sr),
                  !.tag_step_results = @ \o SelectSeq(tss, Seen)]
\* lines 193-194: the step's results appended to the running result
AppendStep(r, sr, tss) ==
    [r EXCEPT !.step_results = Append(@, sr),
              !.tag_step_results = @ \o tss]

\* a prerequisite check that forgets the MCU (used to test the claim on
\* failed prerequisites)
PrereqErrorReaderOnly(reader_connected, mcu_connected, steering_enabled) ==
    IF ~reader_connected THEN "Reader is not connected" ELSE ""
\* lines 134-143: the error message of the prerequisite check, "" if none
PrereqError(reader_connected, mcu_connected, steering_enabled) ==
    IF ~reader_connected THEN "Reader is not connected"
    ELSE IF steering_enabled /\ ~mcu_connected THEN "MCU is not connected"
    ELSE ""

\* a step that is always steered (used to test the FIXED-mode claim)
AlwaysSteered(beam_state) == TRUE
\* _collect_step, line 371: if beam_state != "FIXED"
Steered(beam_state) == beam_state # "FIXED"

\* a fraction counted from zero (used to test the progress claim)
FractionFromZero(current, total_steps) == <<current - 1, total_steps>>
\* line 178: progress = current_step / total_steps, kept as the pair
\* <<numerator, denominator>>
Fraction(current, total_steps) == <<current, total_steps>>

ResultLists(r) == <<r.step_results, r.tag_step_results, r.union_results>>

\* an except clause that starts the result afresh (used to test the claim
\* that partial results survive an error)
FailedAfresh(r, message) ==
    [r EXCEPT !.success = FALSE, !.error_message = message,
              !.end_time = "set", !.step_results = << >>,
              !.tag_step_results = << >>, !.union_results = << >>]
\* the except clause of run, lines 350-353
Failed(r, message) ==
    [r EXCEPT !.success = FALSE, !.error_message = message,
              !.end_time = "set"]

(***************************************************************************)
(* AFSUAMProtocol.run, lines 54-132: the beam sequence and the result.     *)
(* get_beam_presets is called outside the try block.                       *)
(***************************************************************************)
Begin ==
    /\ ~InRun
    /\ runs < world.max_runs
    /\ \E c \in Configs(world.kind) :
         /\ cfg' = c
         /\ IF PreludeRaises(world.lut, c.port_config, c.active_antennas,
                             c.beam_steps)
            THEN /\ pc' = "escaped"
                 /\ steps' = << >>
                 /\ result' = NewResult(world, NoConfig, << >>)
            ELSE /\ pc' = "validate"
                 /\ steps' = BeamSequence(world.lut, c.port_config,
                                          c.active_antennas, c.beam_steps)
                 /\ result' = NewResult(world, c, steps')
    /\ repeat' = 0
    /\ beam_i' = 0
    /\ current_step' = 0
    /\ any_tags' = <<FALSE, FALSE>>
    /\ union' = EmptyUnion
    /\ tag_best_beam' = << >>
    /\ volts' = None
    /\ hwlog' = << >>
    /\ progress' = << >>
    /\ runs' = runs + 1
    /\ stop_in_run' = FALSE
    /\ steps_at_stop' = << >>
    /\ started_at_stop' = 0
    /\ stop_observed' = FALSE
    /\ repeats_passed' = 0
    /\ at_raise' = None
    /\ snap' = None
    /\ UNCHANGED <<since_clear, otherVars>>
    /\ UNCHANGED <<world, stop_requested, inventory, nReports>>

\* lines 134-150: the prerequisites
Validate ==
    /\ pc = "validate"
    /\ LET err == PrereqError(world.reader_connected, world.mcu_connected,
                               1 \in cfg.active_antennas)
       IN  IF err # ""
           THEN /\ result' = [result EXCEPT !.success = FALSE,
                                            !.error_message = err]
                /\ pc' = "returned"
           ELSE /\ result' = result
                /\ pc' = "repeat_check"
    /\ repeat' = 1
    /\ UNCHANGED <<since_clear, snap, otherVars>>
    /\ UNCHANGED <<world, stop_requested, inventory, cfg, steps, beam_i,
                   current_step, any_tags, union, tag_best_beam, volts,
                   histVars>>

\* running sets that are carried over from one repeat to the next (used to
\* test the claim that repeats are aggregated independently)
CarriedUnion(u) == u
\* lines 157-161: the running sets of a repeat start empty
FreshUnion(u) == EmptyUnion

\* lines 153-171: the head of the outer loop
RepeatCheck ==
    /\ pc = "repeat_check"
    /\ IF repeat > cfg.repeats
       THEN /\ pc' = "finish"
            /\ UNCHANGED <<beam_i, union, tag_best_beam, stop_observed,
                           repeats_passed>>
       ELSE IF ShouldBreak(stop_requested)
       THEN /\ pc' = "finish"
            /\ stop_observed' = TRUE
            /\ UNCHANGED <<beam_i, union, tag_best_beam, repeats_passed>>
       ELSE /\ pc' = "step_check"
            /\ beam_i' = 1
            /\ union' = FreshUnion(union)
            /\ tag_best_beam' = InitBestBeam(world.tags, steps)
            /\ repeats_passed' = repeats_passed + 1
            /\ UNCHANGED stop_observed
    /\ UNCHANGED <<since_clear, snap, otherVars>>
    /\ UNCHANGED <<world, stop_requested, inventory, cfg, steps, repeat,
                   current_step, any_tags, volts, result, hwlog, progress,
                   nReports, runs, stop_in_run, steps_at_stop,
                   started_at_stop, at_raise>>

\* a stop that leaves both loops at once, without the union of the repeat
\* (used to test the claim that a repeat cut short still has its union)
UnionOnlyIfComplete(stopped) == IF stopped THEN "finish" ELSE "end_repeat"
\* where run goes on after the inner loop, exhausted or left by the break of
\* line 175: the code of lines 218-337, which builds the union
InnerLoopExit(stopped) == "end_repeat"

\* lines 173-182: the head of the inner loop and the progress callback,
\* which returns or raises
StepCheck ==
    /\ pc = "step_check"
    /\ \/ /\ beam_i > Len(steps)
          /\ pc' = InnerLoopExit(FALSE)
          /\ UNCHANGED <<current_step, progress, result, stop_observed,
                         at_raise>>
       \/ /\ beam_i <= Len(steps)
          /\ ShouldBreak(stop_requested)
          /\ pc' = InnerLoopExit(TRUE)
          /\ stop_observed' = TRUE
          /\ UNCHANGED <<current_step, progress, result, at_raise>>
       \/ /\ beam_i <= Len(steps)
          /\ ~ShouldBreak(stop_requested)
          /\ current_step' = current_step + 1
          /\ progress' = Append(progress,
                                Fraction(current_step',
                                         cfg.repeats * Len(steps)))
          /\ \/ /\ pc' = "actuate"
                /\ result' = result
                /\ at_raise' = at_raise
             \/ /\ pc' = "reset"
                /\ \E message \in CallbackMessages :
                      /\ result' = Failed(result, message)
                      /\ at_raise' = Some([lists |-> ResultLists(result),
                                           message |-> message])
          /\ UNCHANGED stop_observed
    /\ UNCHANGED repeats_passed
    /\ UNCHANGED <<since_clear, snap, otherVars>>
    /\ UNCHANGED <<world, stop_requested, inventory, cfg, steps, repeat,
                   beam_i, any_tags, union, tag_best_beam, volts, hwlog,
                   nReports, runs, stop_in_run, steps_at_stop,
                   started_at_stop>>

\* _collect_step, lines 368-376: the voltages, then the settle sleep begins
Actuate ==
    /\ pc = "actuate"
    /\ IF Steered(steps[beam_i].name)
       THEN \E v \in {get_voltages(world.lut, cfg.port_config,
                                    steps[beam_i].angle)} :
              \E w \in {set_voltage(world.mcu_connected, world.write_raises,
                                    v[1], v[2]).cmd} :
                /\ volts' = Some(v)
                /\ hwlog' = (IF w = None THEN hwlog
                             ELSE Append(hwlog, <<"write", current_step,
                                                  Val(w)>>))
                            \o << <<"settle", current_step, << >> >> >>
       ELSE /\ volts' = None
            /\ hwlog' = Append(hwlog, <<"settle", current_step, << >> >>)
    /\ pc' = "clear"
    /\ UNCHANGED <<since_clear, snap, otherVars>>
    /\ UNCHANGED <<world, stop_requested, inventory, cfg, steps, repeat,
                   beam_i, current_step, any_tags, union, tag_best_beam,
                   result, progress, nReports, runs, stop_in_run,
                   steps_at_stop, started_at_stop, stop_observed,
                   repeats_passed, at_raise>>

\* lines 379-380: clear_data, then the dwell sleep begins (or raises)
Clear ==
    /\ pc = "clear"
    /\ inventory' = ClearedInventory(inventory)
    /\ since_clear' = NoReports(world)
    /\ IF cfg.dwell_s < 0
       THEN /\ pc' = "reset"
            /\ result' = Failed(result, "sleep length must be non-negative")
            /\ at_raise' = Some([lists |-> ResultLists(result),
                                 message |->
                                    "sleep length must be non-negative"])
            /\ hwlog' = Append(hwlog, <<"clear", current_step, << >> >>)
       ELSE /\ pc' = "snapshot"
            /\ result' = result
            /\ at_raise' = at_raise
            /\ hwlog' = hwlog \o << <<"clear", current_step, << >> >>,
                                    <<"dwell", current_step, << >> >> >>
    /\ UNCHANGED <<snap, otherVars>>
    /\ UNCHANGED <<world, stop_requested, runVars, progress, nReports, runs,
                   stop_in_run, steps_at_stop, started_at_stop,
                   stop_observed, repeats_passed>>

\* lines 381-506 and 193-216: get_all_data, the step's results, the union
Snapshot ==
    /\ pc = "snapshot"
    /\ LET beam_state == steps[beam_i].name
           sr == StepResultOf(inventory, world.tags, beam_state,
                              steps[beam_i].angle, volts, repeat,
                              current_step)
           tss == TagStepsOf(inventory, world.tags, beam_state, repeat,
                             current_step)
           inv1 == split_inventory_by_antenna(inventory)[1]
           inv2 == split_inventory_by_antenna(inventory)[2]
       IN  /\ result' = AppendStep(result, sr, tss)
           /\ any_tags' = <<any_tags[1] \/ sr.ant1_unique_epc_n > 0,
                            any_tags[2] \/ sr.ant2_unique_epc_n > 0>>
           /\ union' = FoldUnion(union, EpcSet(inv1), EpcSet(inv2),
                                 sr.ant1_targets, sr.ant2_targets)
           /\ tag_best_beam' = TrackRssi(tag_best_beam, tss, beam_state)
    /\ hwlog' = Append(hwlog, <<"snapshot", current_step, << >> >>)
    /\ snap' = Some([step |-> current_step, inv |-> inventory,
                     since |-> since_clear])
    /\ beam_i' = beam_i + 1
    /\ pc' = "step_check"
    /\ UNCHANGED <<since_clear, otherVars>>
    /\ UNCHANGED <<world, stop_requested, inventory, cfg, steps, repeat,
                   current_step, volts, progress, nReports, runs,
                   stop_in_run, steps_at_stop, started_at_stop,
                   stop_observed, repeats_passed, at_raise>>

\* a run that keeps only the union of its latest repeat (used to test the
\* claim about the shape of a complete run)
KeepLatestUnion(union_results, u) == <<u>>
\* line 337: result.union_results.append(union)
AppendUnion(union_results, u) == Append(union_results, u)

\* lines 218-337: the UnionResult of the repeat
EndRepeat ==
    /\ pc = "end_repeat"
    /\ result' = [result EXCEPT !.union_results =
                     AppendUnion(@, UnionResultOf(world.tags, steps,
                                                  cfg.active_antennas, union,
                                                  tag_best_beam, repeat))]
    /\ repeat' = repeat + 1
    /\ pc' = "repeat_check"
    /\ UNCHANGED <<since_clear, snap, otherVars>>
    /\ UNCHANGED <<world, stop_requested, inventory, cfg, steps, beam_i,
                   current_step, any_tags, union, tag_best_beam, volts,
                   histVars>>

\* a health that is never revised (used to test the health claim)
HealthKept(enabled, any_seen, health) == health
\* lines 340-345: the health of an antenna after the sweep
HealthAfter(enabled, any_seen, health) ==
    IF enabled /\ ~any_seen THEN "NO_TAG_REPORTS" ELSE health

\* lines 339-348: antenna health, end time, success
Finish ==
    /\ pc = "finish"
    /\ result' = [result EXCEPT
          !.ant1_health = HealthAfter(1 \in cfg.active_antennas,
                                      any_tags[1], @),
          !.ant2_health = HealthAfter(2 \in cfg.active_antennas,
                                      any_tags[2], @),
          !.end_time = "set",
          !.success = TRUE]
    /\ pc' = "reset"
    /\ UNCHANGED <<since_clear, snap, otherVars>>
    /\ UNCHANGED <<world, stop_requested, inventory, runVars, histVars>>

\* lines 355-356: the flag is cleared and the result returned
Return ==
    /\ pc = "reset"
    /\ stop_requested' = FALSE
    /\ pc' = "returned"
    /\ UNCHANGED <<since_clear, snap, otherVars>>
    /\ UNCHANGED <<world, inventory, runVars, result, histVars>>

Next ==
    \/ Stop
    \/ TagReport
    \/ Begin
    \/ Validate
    \/ RepeatCheck
    \/ StepCheck
    \/ Actuate
    \/ Clear
    \/ Snapshot
    \/ EndRepeat
    \/ Finish
    \/ Return

Spec == Init /\ [][Next]_vars

\* a step of the thread that executes run
RunStep ==
    \/ Validate
    \/ RepeatCheck
    \/ StepCheck
    \/ Actuate
    \/ Clear
    \/ Snapshot
    \/ EndRepeat
    \/ Finish
    \/ Return

\* the thread that executes run keeps running: serial writes and sleeps
\* return, and the progress callback returns or raises
SpecLive == InitLive /\ [][Next]_vars /\ WF_vars(RunStep)
SpecAgg == InitAgg /\ [][Next]_vars
SpecMatch == InitMatch /\ [][Next]_vars

(***************************************************************************)
(* SimpleInventoryProtocol.run (protocols/inventory.py): one clear, dwell  *)
(* and snapshot per repeat, without beam steering.  It shares the reader,  *)
(* the registry and the stop flag of BaseProtocol.                         *)
(***************************************************************************)
\* a reader in the field of one registered tag and one foreign tag
WorldsInv ==
    [kind : {"inv"}, reader_connected : BOOLEAN, mcu_connected : {FALSE},
     write_raises : {FALSE}, antenna_ids : {{Some(1), Some(2)}},
     lut : {LutFull},
     tags : {<<Tag1, Tag2>>}, epcs : {{EpcTag1, EpcOther}},
     rssis : {{-600}},
     max_reports : {MaxReportsInv}, max_runs : {MaxRuns}]

InvConfigs ==
    [repeats : 1..MaxRepeats, port_config : {0},
     active_antennas : ActiveSets, beam_steps : {1}, dwell_s : DwellValues]

InitInv == InitWith(WorldsInv) /\ cal = NoCall

\* the AttributeError of self.tag_manager.get_tag: TagManager has no such
\* method
NoGetTag == "'TagManager' object has no attribute 'get_tag'"

\* ProtocolResult as constructed by SimpleInventoryProtocol.run
InvNewResult(w, c) ==
    [success |-> TRUE, error_message |-> "", end_time |-> "",
     protocol_repeats |-> c.repeats,
     beam_sequence |-> <<"OMNI">>,
     active_antennas |-> c.active_antennas,
     mcu_connected |-> FALSE,
     reader_connected |-> w.reader_connected,
     ant1_health |-> IF 1 \in c.active_antennas THEN "OK" ELSE "DISABLED",
     ant2_health |-> IF 2 \in c.active_antennas THEN "OK" ELSE "DISABLED",
     step_results |-> << >>, tag_step_results |-> << >>,
     union_results |-> << >>]

\* _collect_inventory, lines 250-254: the snapshot of the one active
\* antenna, or the whole snapshot
InvFilter(inv, active_antennas) ==
    IF 2 \in active_antennas /\ 1 \notin active_antennas
    THEN split_inventory_by_antenna(inv)[2]
    ELSE IF 1 \in active_antennas /\ 2 \notin active_antennas
    THEN split_inventory_by_antenna(inv)[1]
    ELSE inv

\* _collect_inventory, lines 262-281: one detail per registered tag
InvDetails(inv, tags) ==
    [i \in 1..Len(tags) |->
        [suffix |-> tags[i].suffix, label |-> tags[i].label,
         info |-> find_tag_info(inv, tags[i].suffix)]]

InvTagsSeen(details) ==
    Cardinality({i \in 1..Len(details) : details[i].info.seen})

\* lines 133-150: the StepResult of a repeat in which no tag was seen
InvStepResult(tags, details, nth) ==
    [beam_state |-> "OMNI", angle_deg |-> 0,
     v_ch1 |-> None, v_ch2 |-> None,
     tags_total |-> Len(tags),
     ant2_unique_epc_n |-> InvTagsSeen(details),
     ant2_targets_seen_n |-> InvTagsSeen(details),
     ant2_missed |-> get_missed_tags(tags, {}),
     repeat |-> nth, step |-> nth]

\* lines 154-169: the TagStepResults of a repeat
InvTagSteps(details, nth) ==
    [i \in 1..Len(details) |->
        [beam_state |-> "OMNI",
         tag_label |-> details[i].label,
         tag_suffix |-> details[i].suffix,
         ant2_seen |-> details[i].info.seen,
         ant2_rssi |-> details[i].info.rssi,
         ant2_count |-> details[i].info.count,
         ant2_phase |-> details[i].info.phase,
         repeat |-> nth, step |-> nth]]

\* lines 172-224: the UnionResult of a repeat in which no tag was seen
InvUnionResult(tags, details, active_antennas, nth) ==
    [repeat |-> nth,
     tags_total |-> Len(tags),
     ant2_unique_epcs |-> InvTagsSeen(details),
     ant2_targets_seen |-> InvTagsSeen(details),
     ant2_missed |-> IF 2 \in active_antennas
                     THEN get_missed_tags(tags, {}) ELSE << >>]

\* lines 62-112: the result, the prerequisite, the first repeat
I_Begin ==
    /\ ~InRun
    /\ runs < world.max_runs
    /\ \E c \in InvConfigs :
         /\ cfg' = c
         /\ IF ~world.reader_connected
            THEN /\ pc' = "returned"
                 /\ result' = [InvNewResult(world, c) EXCEPT
                                  !.success = FALSE,
                                  !.error_message = "Reader is not connected"]
            ELSE /\ pc' = "i_repeat_check"
                 /\ result' = InvNewResult(world, c)
    /\ steps' = << [name |-> "OMNI", angle |-> 0] >>
    /\ repeat' = 1
    /\ beam_i' = 0
    /\ current_step' = 0
    /\ any_tags' = <<FALSE, FALSE>>
    /\ union' = EmptyUnion
    /\ tag_best_beam' = << >>
    /\ volts' = None
    /\ hwlog' = << >>
    /\ progress' = << >>
    /\ runs' = runs + 1
    /\ stop_in_run' = FALSE
    /\ steps_at_stop' = << >>
    /\ started_at_stop' = 0
    /\ stop_observed' = FALSE
    /\ repeats_passed' = 0
    /\ at_raise' = None
    /\ snap' = None
    /\ UNCHANGED <<since_clear, otherVars>>
    /\ UNCHANGED <<world, stop_requested, inventory, nReports>>

\* lines 112-117: the head of the loop and the progress callback, which
\* returns or raises
I_RepeatCheck ==
    /\ pc = "i_repeat_check"
    /\ \/ /\ repeat > cfg.repeats
          /\ pc' = "i_finish"
          /\ UNCHANGED <<current_step, progress, result, stop_observed,
                         repeats_passed, at_raise>>
       \/ /\ repeat <= cfg.repeats
          /\ ShouldBreak(stop_requested)
          /\ pc' = "i_finish"
          /\ stop_observed' = TRUE
          /\ UNCHANGED <<current_step, progress, result, repeats_passed,
                         at_raise>>
       \/ /\ repeat <= cfg.repeats
          /\ ~ShouldBreak(stop_requested)
          /\ current_step' = repeat
          /\ repeats_passed' = repeats_passed + 1
          /\ progress' = Append(progress, Fraction(repeat, cfg.repeats))
          /\ \/ /\ pc' = "i_clear"
                /\ result' = result
                /\ at_raise' = at_raise
             \/ /\ pc' = "reset"
                /\ \E message \in CallbackMessages :
                      /\ result' = Failed(result, message)
                      /\ at_raise' = Some([lists |-> ResultLists(result),
                                           message |-> message])
          /\ UNCHANGED stop_observed
    /\ UNCHANGED <<since_clear, snap, otherVars>>
    /\ UNCHANGED <<world, stop_requested, inventory, cfg, steps, repeat,
                   beam_i, any_tags, union, tag_best_beam, volts, hwlog,
                   nReports, runs, stop_in_run, steps_at_stop,
                   started_at_stop>>

\* _collect_inventory, lines 246-247: clear_data, then the dwell sleep
\* begins (or raises)
I_Clear ==
    /\ pc = "i_clear"
    /\ inventory' = ClearedInventory(inventory)
    /\ since_clear' = NoReports(world)
    /\ IF cfg.dwell_s < 0
       THEN /\ pc' = "reset"
            /\ result' = Failed(result, "sleep length must be non-negative")
            /\ at_raise' = Some([lists |-> ResultLists(result),
                                 message |->
                                    "sleep length must be non-negative"])
            /\ hwlog' = Append(hwlog, <<"clear", current_step, << >> >>)
       ELSE /\ pc' = "i_snapshot"
            /\ result' = result
            /\ at_raise' = at_raise
            /\ hwlog' = hwlog \o << <<"clear", current_step, << >> >>,
                                    <<"dwell", current_step, << >> >> >>
    /\ UNCHANGED <<snap, otherVars>>
    /\ UNCHANGED <<world, stop_requested, runVars, progress, nReports, runs,
                   stop_in_run, steps_at_stop, started_at_stop,
                   stop_observed, repeats_passed>>

\* lines 248-225: get_all_data, the details, and the results of the repeat.
\* The missed list of line 148 calls tag_manager.get_tag for every tag that
\* was seen, which raises.
I_Snapshot ==
    /\ pc = "i_snapshot"
    /\ LET details == InvDetails(InvFilter(inventory, cfg.active_antennas),
                                 world.tags)
       IN  IF InvTagsSeen(details) > 0
           THEN /\ pc' = "reset"
                /\ result' = Failed(result, NoGetTag)
                /\ at_raise' = Some([lists |-> ResultLists(result),
                                     message |-> NoGetTag])
                /\ repeat' = repeat
           ELSE /\ pc' = "i_repeat_check"
                /\ result' =
                      [result EXCEPT
                         !.step_results =
                            Append(@, InvStepResult(world.tags, details,
                                                    repeat)),
                         !.tag_step_results = @ \o InvTagSteps(details, repeat),
                         !.union_results =
                            Append(@, InvUnionResult(world.tags, details,
                                                     cfg.active_antennas,
                                                     repeat))]
                /\ at_raise' = at_raise
                /\ repeat' = repeat + 1
    /\ hwlog' = Append(hwlog, <<"snapshot", current_step, << >> >>)
    /\ snap' = Some([step |-> current_step, inv |-> inventory,
                     since |-> since_clear])
    /\ UNCHANGED <<since_clear, otherVars>>
    /\ UNCHANGED <<world, stop_requested, inventory, cfg, steps, beam_i,
                   current_step, any_tags, union, tag_best_beam, volts,
                   progress, nReports, runs, stop_in_run, steps_at_stop,
                   started_at_stop, stop_observed, repeats_passed>>

\* lines 227-228: end time and success
I_Finish ==
    /\ pc = "i_finish"
    /\ result' = [result EXCEPT !.end_time = "set", !.success = TRUE]
    /\ pc' = "reset"
    /\ UNCHANGED <<since_clear, snap, otherVars>>
    /\ UNCHANGED <<world, stop_requested, inventory, runVars, histVars>>

\* Return is lines 235-236: the flag is cleared and the result returned
NextInv ==
    \/ Stop
    \/ TagReport
    \/ I_Begin
    \/ I_RepeatCheck
    \/ I_Clear
    \/ I_Snapshot
    \/ I_Finish
    \/ Return

SpecInv == InitInv /\ [][NextInv]_vars

(***************************************************************************)
(* CalibrationSweepProtocol.run (protocols/calibration.py): a sweep over   *)
(* an angle range, one CalibrationPoint per angle.  It shares the reader,  *)
(* the MCU, the LUT, the registry and the stop flag of BaseProtocol.       *)
(***************************************************************************)
\* a reader in the field of one registered tag read at two strengths
WorldsCal ==
    [kind : {"cal"}, reader_connected : BOOLEAN, mcu_connected : BOOLEAN,
     write_raises : BOOLEAN, antenna_ids : {{Some(1), Some(2)}},
     lut : {LutFull},
     tags : {<<Tag1>>}, epcs : {{EpcTag1, EpcOther}},
     rssis : {{-600, -570}},
     max_reports : {MaxReportsCal}, max_runs : {MaxRunsAgg}]

\* sweeps of three angles, two angles and no angle
CalConfigs ==
    [port_config : {0}, angle_start : {-300, 0}, angle_end : {-300, 300},
     angle_step : {300}, dwell_s : DwellValues,
     active_antennas : ActiveSets]

InitCal == InitWith(WorldsCal) /\ cal = NoCall

\* lines 109-113: the angles from angle_start to angle_end (angle_step > 0)
RECURSIVE AngleList(_, _, _)
AngleList(angle, angle_end, angle_step) ==
    IF angle <= angle_end
    THEN <<angle>> \o AngleList(angle + angle_step, angle_end, angle_step)
    ELSE << >>

\* CalibrationResult as constructed by run, lines 93-100
CalNewResult(c) ==
    [success |-> TRUE, error_message |-> "", end_time |-> "",
     port_config |-> c.port_config,
     points |-> << >>,
     ant1_best_angle |-> 0, ant1_best_rssi |-> <<-990, 1>>,
     ant2_best_angle |-> 0, ant2_best_rssi |-> <<-990, 1>>]

\* lines 184-199 of _calculate_point: the list ant*_rssi, the RSSI of every
\* entry of a known tag on the antenna, once per read
RECURSIVE RssiReads(_, _, _)
RssiReads(inv, known, ant) ==
    IF inv = << >> THEN << >>
    ELSE (IF Last4(Head(inv).epc) \in known /\ Head(inv).antenna = ant
          THEN [k \in 1..Head(inv).count |-> Head(inv).rssi]
          ELSE << >>) \o RssiReads(Tail(inv), known, ant)

RECURSIVE SumSeq(_)
SumSeq(s) == IF s = << >> THEN 0 ELSE Head(s) + SumSeq(Tail(s))

\* lines 201-213: the statistics of one antenna; the average is kept as the
\* pair <<sum, number>>, -99.0 when there is no read
AntennaStats(reads) ==
    IF reads = << >>
    THEN [rssi_avg |-> <<-990, 1>>, rssi_min |-> -990, rssi_max |-> -990,
          read_count |-> 0]
    ELSE [rssi_avg |-> <<SumSeq(reads), Len(reads)>>,
          rssi_min |-> SetMin(SeqToSet(reads)),
          rssi_max |-> SetMax(SeqToSet(reads)),
          read_count |-> Len(reads)]

\* a > b for two averages
AvgGreater(a, b) == a[1] * b[2] > b[1] * a[2]

\* CalibrationSweepProtocol._calculate_point
calculate_point(angle, v1, v2, port_config, inv, tags, active_antennas) ==
    LET known == SeqToSet(suffixes(tags))
        s1 == AntennaStats(IF 1 \in active_antennas
                           THEN RssiReads(inv, known, 1) ELSE << >>)
        s2 == AntennaStats(IF 2 \in active_antennas
                           THEN RssiReads(inv, known, 2) ELSE << >>)
    IN  [angle |-> angle, v_ch1 |-> v1, v_ch2 |-> v2,
         port_config |-> port_config,
         ant1_rssi_avg |-> s1.rssi_avg, ant1_rssi_min |-> s1.rssi_min,
         ant1_rssi_max |-> s1.rssi_max, ant1_read_count |-> s1.read_count,
         ant2_rssi_avg |-> s2.rssi_avg, ant2_rssi_min |-> s2.rssi_min,
         ant2_rssi_max |-> s2.rssi_max, ant2_read_count |-> s2.read_count]

\* self.mcu.set_voltage(v1, v2) in the history: the call with its
\* arguments, then the pair handed to the serial port if the MCU is
\* connected
VoltageCall(w, step, v1, v2) ==
    LET cmd == set_voltage(w.mcu_connected, w.write_raises, v1, v2).cmd
    IN  << <<"set_voltage", step, <<v1, v2>> >> >>
        \o (IF cmd = None THEN << >>
            ELSE << <<"write", step, Val(cmd)>> >>)

\* a run that leaves the beam where the sweep ended (used to test the claim
\* that the beam is reset)
BeamLeft(log, call) == log
\* line 160: self.mcu.set_voltage(0, 0)
ResetBeam(log, call) == log \o call

\* lines 93-115: the result, the prerequisite, the angle list
K_Begin ==
    /\ ~InRun
    /\ runs < world.max_runs
    /\ \E c \in CalConfigs :
         /\ cfg' = c
         /\ IF ~world.reader_connected
            THEN /\ pc' = "returned"
                 /\ result' = [CalNewResult(c) EXCEPT
                                  !.success = FALSE,
                                  !.error_message = "Reader not connected"]
                 /\ steps' = << >>
            ELSE /\ pc' = "k_step_check"
                 /\ result' = CalNewResult(c)
                 /\ steps' = AngleList(c.angle_start, c.angle_end,
                                       c.angle_step)
    /\ repeat' = 1
    /\ beam_i' = 1
    /\ current_step' = 0
    /\ any_tags' = <<FALSE, FALSE>>
    /\ union' = EmptyUnion
    /\ tag_best_beam' = << >>
    /\ volts' = None
    /\ hwlog' = << >>
    /\ progress' = << >>
    /\ runs' = runs + 1
    /\ stop_in_run' = FALSE
    /\ steps_at_stop' = << >>
    /\ started_at_stop' = 0
    /\ stop_observed' = FALSE
    /\ repeats_passed' = 0
    /\ at_raise' = None
    /\ snap' = None
    /\ UNCHANGED <<since_clear, otherVars>>
    /\ UNCHANGED <<world, stop_requested, inventory, nReports>>

\* lines 118-123: the head of the loop and the progress callback, which
\* returns or raises
K_StepCheck ==
    /\ pc = "k_step_check"
    /\ \/ /\ beam_i > Len(steps)
          /\ pc' = "k_finish"
          /\ UNCHANGED <<current_step, progress, result, stop_observed,
                         at_raise>>
       \/ /\ beam_i <= Len(steps)
          /\ ShouldBreak(stop_requested)
          /\ pc' = "k_finish"
          /\ stop_observed' = TRUE
          /\ UNCHANGED <<current_step, progress, result, at_raise>>
       \/ /\ beam_i <= Len(steps)
          /\ ~ShouldBreak(stop_requested)
          /\ current_step' = beam_i
          /\ progress' = Append(progress, Fraction(beam_i, Len(steps)))
          /\ \/ /\ pc' = "k_actuate"
                /\ result' = result
                /\ at_raise' = at_raise
             \/ /\ pc' = "k_reset"
                /\ \E message \in CallbackMessages :
                      /\ result' = Failed(result, message)
                      /\ at_raise' = Some([lists |-> <<result.points>>,
                                           message |-> message])
          /\ UNCHANGED stop_observed
    /\ UNCHANGED repeats_passed
    /\ UNCHANGED <<since_clear, snap, otherVars>>
    /\ UNCHANGED <<world, stop_requested, inventory, cfg, steps, repeat,
                   beam_i, any_tags, union, tag_best_beam, volts, hwlog,
                   nReports, runs, stop_in_run, steps_at_stop,
                   started_at_stop>>

\* lines 126-128: the voltages of the angle, then the settle sleep begins
K_Actuate ==
    /\ pc = "k_actuate"
    /\ LET v == get_voltages(world.lut, cfg.port_config, steps[beam_i])
       IN  /\ volts' = Some(v)
           /\ hwlog' = hwlog \o VoltageCall(world, current_step, v[1], v[2])
                             \o << <<"settle", current_step, << >> >> >>
    /\ pc' = "k_clear"
    /\ UNCHANGED <<since_clear, snap, otherVars>>
    /\ UNCHANGED <<world, stop_requested, inventory, cfg, steps, repeat,
                   beam_i, current_step, any_tags, union, tag_best_beam,
                   result, progress, nReports, runs, stop_in_run,
                   steps_at_stop, started_at_stop, stop_observed,
                   repeats_passed, at_raise>>

\* lines 131-132: clear_data, then the dwell sleep begins (or raises)
K_Clear ==
    /\ pc = "k_clear"
    /\ inventory' = ClearedInventory(inventory)
    /\ since_clear' = NoReports(world)
    /\ IF cfg.dwell_s < 0
       THEN /\ pc' = "k_reset"
            /\ result' = Failed(result, "sleep length must be non-negative")
            /\ at_raise' = Some([lists |-> <<result.points>>,
                                 message |->
                                    "sleep length must be non-negative"])
            /\ hwlog' = Append(hwlog, <<"clear", current_step, << >> >>)
       ELSE /\ pc' = "k_snapshot"
            /\ result' = result
            /\ at_raise' = at_raise
            /\ hwlog' = hwlog \o << <<"clear", current_step, << >> >>,
                                    <<"dwell", current_step, << >> >> >>
    /\ UNCHANGED <<snap, otherVars>>
    /\ UNCHANGED <<world, stop_requested, runVars, progress, nReports, runs,
                   stop_in_run, steps_at_stop, started_at_stop,
                   stop_observed, repeats_passed>>

\* lines 133-149: get_all_data, the point of the angle, the best angles
K_Snapshot ==
    /\ pc = "k_snapshot"
    /\ LET target_angle == steps[beam_i]
           point == calculate_point(target_angle, Val(volts)[1],
                                    Val(volts)[2], cfg.port_config,
                                    inventory, world.tags,
                                    cfg.active_antennas)
           best1 == /\ 1 \in cfg.active_antennas
                    /\ AvgGreater(point.ant1_rssi_avg, result.ant1_best_rssi)
           best2 == /\ 2 \in cfg.active_antennas
                    /\ AvgGreater(point.ant2_rssi_avg, result.ant2_best_rssi)
       IN  result' =
              [result EXCEPT
                 !.points = Append(@, point),
                 !.ant1_best_rssi = IF best1 THEN point.ant1_rssi_avg ELSE @,
                 !.ant1_best_angle = IF best1 THEN target_angle ELSE @,
                 !.ant2_best_rssi = IF best2 THEN point.ant2_rssi_avg ELSE @,
                 !.ant2_best_angle = IF best2 THEN target_angle ELSE @]
    /\ hwlog' = Append(hwlog, <<"snapshot", current_step, << >> >>)
    /\ snap' = Some([step |-> current_step, inv |-> inventory,
                     since |-> since_clear])
    /\ beam_i' = beam_i + 1
    /\ pc' = "k_step_check"
    /\ UNCHANGED <<since_clear, otherVars>>
    /\ UNCHANGED <<world, stop_requested, inventory, cfg, steps, repeat,
                   current_step, any_tags, union, tag_best_beam, volts,
                   progress, nReports, runs, stop_in_run, steps_at_stop,
                   started_at_stop, stop_observed, repeats_passed, at_raise>>

\* lines 151-152: end time and success
K_Finish ==
    /\ pc = "k_finish"
    /\ result' = [result EXCEPT !.end_time = "set", !.success = TRUE]
    /\ pc' = "k_reset"
    /\ UNCHANGED <<since_clear, snap, otherVars>>
    /\ UNCHANGED <<world, stop_requested, inventory, runVars, histVars>>

\* lines 159-163: the beam is reset, the flag cleared, the result returned
K_Reset ==
    /\ pc = "k_reset"
    /\ hwlog' = ResetBeam(hwlog, VoltageCall(world, current_step + 1, 0, 0))
    /\ stop_requested' = FALSE
    /\ pc' = "returned"
    /\ UNCHANGED <<since_clear, snap, otherVars>>
    /\ UNCHANGED <<world, inventory, runVars, result, progress, nReports,
                   runs, stop_in_run, steps_at_stop, started_at_stop,
                   stop_observed, repeats_passed, at_raise>>

NextCal ==
    \/ Stop
    \/ TagReport
    \/ K_Begin
    \/ K_StepCheck
    \/ K_Actuate
    \/ K_Clear
    \/ K_Snapshot
    \/ K_Finish
    \/ K_Reset

SpecCal == InitCal /\ [][NextCal]_vars

(***************************************************************************)
(* The telemetry lock, step by step: the listener thread in                *)
(* RFIDReader._handle_tag_report and the orchestrator thread in            *)
(* AFSUAMProtocol._collect_step, which calls clear_data and get_all_data.  *)
(***************************************************************************)
protoVars == <<world, stop_requested, pc, runVars, result, histVars>>

\* a lock any thread may take at any time (used to test the telemetry claim)
AlwaysFree(owner) == TRUE
\* threading.Lock: acquired only when no thread holds it
LockFree(owner) == owner = "free"

\* a with block that keeps the lock on exit (used to test the claim that
\* the orchestrator never sleeps with the lock)
StillHeld(owner) == owner
\* the exit of "with self._lock"
Released(owner) == "free"

\* lines 257-261: the next report of tag_reports is parsed
L_Report ==
    /\ lst.pc = "idle"
    /\ nReports < world.max_reports
    /\ \E epc \in world.epcs, rssi \in world.rssis,
          antenna_id \in world.antenna_ids :
         lst' = [pc |-> "acquire", prev_count |-> 0,
                 report |-> Some([epc |-> epc, rssi |-> rssi, phase |-> 0,
                                  antenna |-> AntennaOf(antenna_id)])]
    /\ nReports' = nReports + 1
    /\ UNCHANGED <<world, stop_requested, pc, runVars, result, hwlog,
                   progress, runs, stop_in_run, steps_at_stop,
                   started_at_stop, stop_observed, repeats_passed, at_raise>>
    /\ UNCHANGED <<inventory, since_clear, snap, lock, orc, cal>>

\* line 263: with self._lock
L_Acquire ==
    /\ lst.pc = "acquire"
    /\ LockFree(lock)
    /\ lock' = "listener"
    /\ lst' = [lst EXCEPT !.pc = "read"]
    /\ UNCHANGED <<protoVars, cal, inventory, since_clear, snap, orc>>

\* line 265: prev_count
L_Read ==
    /\ lst.pc = "read"
    /\ lst' = [lst EXCEPT !.pc = "write",
                          !.prev_count =
                             PrevCount(inventory, Val(lst.report).epc)]
    /\ UNCHANGED <<protoVars, cal, inventory, since_clear, snap, lock, orc>>

\* lines 266-267: the count and the store
L_Write ==
    /\ lst.pc = "write"
    /\ LET r == Val(lst.report)
       IN  /\ inventory' =
                StoreTag(inventory,
                         [epc |-> r.epc, rssi |-> r.rssi, phase |-> r.phase,
                          antenna |-> r.antenna,
                          count |-> lst.prev_count + 1])
           /\ since_clear' = Accept(since_clear, r.epc, r.rssi, r.antenna)
    /\ lst' = [lst EXCEPT !.pc = "release"]
    /\ UNCHANGED <<protoVars, cal, snap, lock, orc>>

\* the end of the with block of line 263
L_Release ==
    /\ lst.pc = "release"
    /\ lock' = Released(lock)
    /\ lst' = ListenerIdle
    /\ UNCHANGED <<protoVars, cal, inventory, since_clear, snap, orc>>

\* _collect_step, lines 371-373: the orchestrator enters the serial write
O_Write ==
    /\ orc.pc = "idle"
    /\ orc.steps < MaxLockSteps
    /\ orc' = [orc EXCEPT !.pc = "writing"]
    /\ UNCHANGED <<protoVars, cal, inventory, since_clear, snap, lock, lst>>

\* line 376: the write has returned, time.sleep(0.8) begins
O_Settle ==
    /\ orc.pc = "writing"
    /\ orc' = [orc EXCEPT !.pc = "settling"]
    /\ UNCHANGED <<protoVars, cal, inventory, since_clear, snap, lock, lst>>

\* clear_data, line 209: with self._lock
O_ClearAcquire ==
    /\ orc.pc = "settling"
    /\ LockFree(lock)
    /\ lock' = "orch"
    /\ orc' = [orc EXCEPT !.pc = "clearing"]
    /\ UNCHANGED <<protoVars, cal, inventory, since_clear, snap, lst>>

\* clear_data, line 210
O_ClearAssign ==
    /\ orc.pc = "clearing"
    /\ inventory' = ClearedInventory(inventory)
    /\ since_clear' = NoReports(world)
    /\ orc' = [orc EXCEPT !.pc = "clear_release"]
    /\ UNCHANGED <<protoVars, cal, snap, lock, lst>>

\* clear_data returns; line 380: time.sleep(dwell_s) begins
O_ClearRelease ==
    /\ orc.pc = "clear_release"
    /\ lock' = Released(lock)
    /\ orc' = [orc EXCEPT !.pc = "dwelling"]
    /\ UNCHANGED <<protoVars, cal, inventory, since_clear, snap, lst>>

\* get_all_data, line 214: with self._lock
O_GetAcquire ==
    /\ orc.pc = "dwelling"
    /\ LockFree(lock)
    /\ lock' = "orch"
    /\ orc' = [orc EXCEPT !.pc = "copying"]
    /\ UNCHANGED <<protoVars, cal, inventory, since_clear, snap, lst>>

\* get_all_data, line 215: self.inventory.copy()
O_GetCopy ==
    /\ orc.pc = "copying"
    /\ snap' = Some([step |-> orc.steps + 1, inv |-> inventory,
                     since |-> since_clear])
    /\ orc' = [orc EXCEPT !.pc = "get_release"]
    /\ UNCHANGED <<protoVars, cal, inventory, since_clear, lock, lst>>

\* get_all_data returns the copy
O_GetRelease ==
    /\ orc.pc = "get_release"
    /\ lock' = Released(lock)
    /\ orc' = [pc |-> "idle", steps |-> orc.steps + 1]
    /\ UNCHANGED <<protoVars, cal, inventory, since_clear, snap, lst>>

NextLock ==
    \/ L_Report
    \/ L_Acquire
    \/ L_Read
    \/ L_Write
    \/ L_Release
    \/ O_Write
    \/ O_Settle
    \/ O_ClearAcquire
    \/ O_ClearAssign
    \/ O_ClearRelease
    \/ O_GetAcquire
    \/ O_GetCopy
    \/ O_GetRelease

SpecLock == InitLock /\ [][NextLock]_vars

(***************************************************************************)
(* A caller of PhaseLUT: a voltage is converted to a phase and the phase   *)
(* back to a voltage.                                                      *)
(***************************************************************************)
PhaseTables == {PhaseFallback, PhaseMeasured}
Channels == {1, 4}
\* voltages inside the calibrated range, every 250 mV and near its end
TestVoltages == {250 * i : i \in 0..34} \cup {8420, 8450}

InitPhase ==
    /\ InitWith(WorldsLock)
    /\ cal \in [table : PhaseTables, channel : Channels, v : TestVoltages,
                 stage : {"start"}, phase : {0}, back : {0}]

calOnly ==
    <<world, stop_requested, inventory, pc, runVars, result, histVars,
      since_clear, snap, lock, lst, orc>>

GetPhase ==
    /\ cal.stage = "start"
    /\ cal' = [cal EXCEPT !.stage = "phase",
                          !.phase = get_phase(cal.table, cal.v, cal.channel)]
    /\ UNCHANGED calOnly

GetVoltage ==
    /\ cal.stage = "phase"
    /\ cal' = [cal EXCEPT !.stage = "done",
                          !.back = get_voltage(cal.table, cal.phase,
                                               cal.channel)]
    /\ UNCHANGED calOnly

NextPhase ==
    \/ GetPhase
    \/ GetVoltage

SpecPhase == InitPhase /\ [][NextPhase]_vars

(***************************************************************************)
(* A caller of CorrectedBeamLUT.get_voltages, for every table, every       *)
(* configuration value and a range of angles.                              *)
(***************************************************************************)
LutTables ==
    {LutFull, LutConfig0Only, LutSingleRow, LutMissing, LutNoAngleCol}
PortConfigs == {0, 1, 2}
LutAngles == {-9000, -300, -250, -200, 0, 137, 200, 300, 9000}

InitLut ==
    /\ InitWith(WorldsLock)
    /\ cal \in [lut : LutTables, port_config : PortConfigs,
                 angle : LutAngles, stage : {"start"}, out : {<<0, 0>>}]

GetVoltages ==
    /\ cal.stage = "start"
    /\ cal' = [cal EXCEPT !.stage = "done",
                          !.out = get_voltages(cal.lut, cal.port_config,
                                               cal.angle)]
    /\ UNCHANGED calOnly

NextLut == GetVoltages

SpecLut == InitLut /\ [][NextLut]_vars

(***************************************************************************)
(* The head of AFSUAMProtocol.run as a function of its configuration: the  *)
(* beam sequence it builds and the error of its prerequisite check, with   *)
(* the reader and the MCU connected.                                       *)
(***************************************************************************)
\* numbers of beam steps: the small ones, and those around the number of
\* tenths of a degree between +30 and -30
DenseSizes == (0..40) \cup {61, 121, 301, 600, 601, 602, 603}

InitBeams ==
    /\ InitWith(WorldsLock)
    /\ cal \in [lut : {LutFull}, active_antennas : ActiveSets,
                 beam_steps : DenseSizes, stage : {"start"},
                 steps : {<< >>}, error : {""}]

BuildSteps ==
    /\ cal.stage = "start"
    /\ cal' = [cal EXCEPT
                 !.stage = "done",
                 !.steps = BeamSequence(cal.lut, 0, cal.active_antennas,
                                        cal.beam_steps),
                 !.error = PrereqError(TRUE, TRUE,
                                       1 \in cal.active_antennas)]
    /\ UNCHANGED calOnly

NextBeams == BuildSteps

SpecBeams == InitBeams /\ [][NextBeams]_vars

(***************************************************************************)
(* A caller of CorrectedBeamLUT.get_beam_presets, for tables with any      *)
(* choice of commanded angles in either configuration.                     *)
(***************************************************************************)
PresetAngles == {-300, -100, 50, 100, 250}

RECURSIVE RowsOfAngles(_, _)
\* one row of the table per angle, in ascending order of the angles
RowsOfAngles(angles, config) ==
    IF angles = {} THEN << >>
    ELSE <<<<SetMin(angles), config, 4000, 4000>>>>
         \o RowsOfAngles(angles \ {SetMin(angles)}, config)

PresetTables ==
    {[exists |-> TRUE, hasAngleCol |-> TRUE,
      rows |-> RowsOfAngles(a0, 0) \o RowsOfAngles(a1, 1)] :
        a0 \in SUBSET PresetAngles, a1 \in {{}, {-200, 0, 200}}}
    \cup {LutMissing}

InitPresets ==
    /\ InitWith(WorldsLock)
    /\ cal \in [lut : PresetTables, port_config : PortConfigs,
                 stage : {"start"},
                 presets : {[LEFT |-> 0, CENTER |-> 0, RIGHT |-> 0]}]

GetBeamPresets ==
    /\ cal.stage = "start"
    /\ cal' = [cal EXCEPT !.stage = "done",
                          !.presets = get_beam_presets(cal.lut,
                                                       cal.port_config)]
    /\ UNCHANGED calOnly

NextPresets == GetBeamPresets

SpecPresets == InitPresets /\ [][NextPresets]_vars

(***************************************************************************)
(* RFIDReader with the identity of its objects.  entries holds the         *)
(* tag_data dicts ever made and maps the dicts ever bound to               *)
(* self.inventory or returned by get_all_data; a reference is a position   *)
(* in these sequences, a map is a sequence of (epc, reference) pairs in    *)
(* insertion order.  taken records, for every get_all_data, the map that   *)
(* was returned and what it held at that instant.                          *)
(***************************************************************************)
ReaderStart ==
    [stage |-> "reader", entries |-> << >>, maps |-> << << >> >>,
     inventory |-> 1, taken |-> << >>, ops |-> 0]

SnapEpcs == {EpcTag1, EpcTag2}
SnapRssis == {-600, -570}
SnapAntennaIds == {Some(1), Some(2)}

InitSnap == InitWith(WorldsLock) /\ cal = ReaderStart

MapIndex(m, epc) ==
    IF \E i \in 1..Len(m) : m[i].epc = epc
    THEN CHOOSE i \in 1..Len(m) : m[i].epc = epc
    ELSE 0

\* what a map holds: the entries its keys are bound to, by value
Deref(entries, m) == [i \in 1..Len(m) |-> entries[m[i].ref]]

\* a handler that updates the entry of a known EPC in place (used to test
\* the claim that a snapshot is isolated)
UpdateEntry(entries, m, tag_data) ==
    IF MapIndex(m, tag_data.epc) = 0
    THEN [entries |-> Append(entries, tag_data),
          map |-> Append(m, [epc |-> tag_data.epc,
                             ref |-> Len(entries) + 1])]
    ELSE [entries |-> [entries EXCEPT
                         ![m[MapIndex(m, tag_data.epc)].ref] = tag_data],
          map |-> m]
\* rfid_reader.py line 267, self.inventory[epc] = tag_data: the key is bound
\* to the dict _parse_tag_report has just made
StoreEntry(entries, m, tag_data) ==
    [entries |-> Append(entries, tag_data),
     map |-> IF MapIndex(m, tag_data.epc) = 0
             THEN Append(m, [epc |-> tag_data.epc, ref |-> Len(entries) + 1])
             ELSE [m EXCEPT ![MapIndex(m, tag_data.epc)].ref =
                               Len(entries) + 1]]

\* the locked section of _handle_tag_report for one report
R_HandleTagReport ==
    /\ cal.stage = "reader"
    /\ cal.ops < MaxReaderOps
    /\ \E epc \in SnapEpcs, rssi \in SnapRssis, antenna_id \in SnapAntennaIds :
         LET m == cal.maps[cal.inventory]
             prev_count == IF MapIndex(m, epc) = 0 THEN 0
                           ELSE cal.entries[m[MapIndex(m, epc)].ref].count
             tag_data == [epc |-> epc, rssi |-> rssi, phase |-> 0,
                          antenna |-> AntennaOf(antenna_id),
                          count |-> prev_count + 1]
             stored == StoreEntry(cal.entries, m, tag_data)
         IN  cal' = [cal EXCEPT !.entries = stored.entries,
                                !.maps[cal.inventory] = stored.map,
                                !.ops = @ + 1]
    /\ UNCHANGED calOnly

\* clear_data: self.inventory = {}, a new dict
R_ClearData ==
    /\ cal.stage = "reader"
    /\ cal.ops < MaxReaderOps
    /\ cal' = [cal EXCEPT !.maps = Append(@, << >>),
                          !.inventory = Len(cal.maps) + 1,
                          !.ops = @ + 1]
    /\ UNCHANGED calOnly

\* get_all_data: self.inventory.copy(), a new dict with the same bindings
R_GetAllData ==
    /\ cal.stage = "reader"
    /\ cal.ops < MaxReaderOps
    /\ cal' = [cal EXCEPT
                 !.maps = Append(@, cal.maps[cal.inventory]),
                 !.taken = Append(@, [map |-> Len(cal.maps) + 1,
                                      value |->
                                         Deref(cal.entries,
                                               cal.maps[cal.inventory])]),
                 !.ops = @ + 1]
    /\ UNCHANGED calOnly

NextSnap ==
    \/ R_HandleTagReport
    \/ R_ClearData
    \/ R_GetAllData

SpecSnap == InitSnap /\ [][NextSnap]_vars


(***************************************************************************)
(* Definitions shared by the claims.                                       *)
(***************************************************************************)
\* total_steps of run: repeats x number of beam states
Total == cfg.repeats * Len(steps)

IsPrefix(a, b) == Len(a) <= Len(b) /\ SubSeq(b, 1, Len(a)) = a

RECURSIVE OpNames(_, _)
OpNames(log, k) ==
    IF log = << >> THEN << >>
    ELSE IF Head(log)[2] = k THEN <<Head(log)[1]>> \o OpNames(Tail(log), k)
         ELSE OpNames(Tail(log), k)

\* the hardware operations of a complete step, in order
ExpectedOps(beam_state) ==
    IF beam_state = "FIXED" THEN <<"settle", "clear", "dwell", "snapshot">>
    ELSE <<"write", "settle", "clear", "dwell", "snapshot">>

Returned == pc = "returned"

\* the reader is missing, or the beam is steered and the actuator is missing
PrerequisiteFails ==
    \/ ~world.reader_connected
    \/ /\ \E i \in 1..Len(steps) : steps[i].name # "FIXED"
       /\ ~world.mcu_connected

C2_StopOnlyAtStepBoundaries ==
    /\ (\/ pc \in {"step_check", "end_repeat", "repeat_check", "finish"}
        \/ (pc \in {"reset", "returned"} /\ at_raise = None)) =>
          /\ Len(result.step_results) = current_step
          /\ Len(result.tag_step_results) = current_step * Len(world.tags)
    /\ pc \in {"actuate", "clear", "snapshot"} =>
          Len(result.step_results) = current_step - 1
    /\ \A k \in 1..Len(result.step_results) :
          OpNames(hwlog, k) = ExpectedOps(result.step_results[k].beam_state)
    /\ stop_observed =>
          /\ pc \notin {"step_check", "actuate", "clear", "snapshot"}
          /\ Len(result.step_results) = current_step

\* stop() came while a step was in flight; the step was completed and
\* appended, and the next stop check ended the sweep
C2_Witness ==
    /\ Returned /\ stop_in_run /\ stop_observed
    /\ started_at_stop = Len(steps_at_stop) + 1
    /\ Len(result.step_results) = started_at_stop
    /\ OpNames(hwlog, started_at_stop) =
          <<"write", "settle", "clear", "dwell", "snapshot">>

(***************************************************************************)
(* C3.  Failed prerequisites.  When the reader is not connected, or the    *)
(* beam sequence is not FIXED and the MCU is not connected, the run ends   *)
(* at the prerequisite check: success = false, an error message, empty     *)
(* step, tag-step and union lists, and no hardware operation (no actuator  *)
(* write, no telemetry clear).                                             *)
(***************************************************************************)
C3_PreconditionFailure ==
    (pc \notin {"idle", "escaped", "validate"} /\ PrerequisiteFails) =>
        /\ Returned
        /\ ~result.success
        /\ result.error_message # ""
        /\ result.step_results = << >>
        /\ result.tag_step_results = << >>
        /\ result.union_results = << >>
        /\ hwlog = << >>

\* the reader is connected, the beam is steered and the MCU is missing
C3_Witness ==
    /\ Returned
    /\ world.reader_connected /\ ~world.mcu_connected
    /\ \E i \in 1..Len(steps) : steps[i].name # "FIXED"
    /\ result.error_message = "MCU is not connected"

(***************************************************************************)
(* C4.  Mid-run error.  When a step raises, no later step runs: the run    *)
(* goes to its end with success = false, the exception's message, the end  *)
(* timestamp set, and the StepResults, TagStepResults and UnionResults     *)
(* that were in the result when the step raised.                           *)
(***************************************************************************)
C4_MidRunError ==
    at_raise # None =>
        /\ pc \in {"reset", "returned"}
        /\ ~result.success
        /\ result.error_message = Val(at_raise).message
        /\ result.end_time = "set"
        /\ ResultLists(result) = Val(at_raise).lists
        /\ Len(result.step_results) = current_step - 1
        /\ \A i \in 1..Len(hwlog) :
              \/ hwlog[i][2] < current_step
              \/ hwlog[i][2] = current_step /\ hwlog[i][1] # "snapshot"

\* a step of the second repeat raised: the first repeat's results are kept
C4_Witness ==
    /\ Returned /\ at_raise # None
    /\ Len(result.step_results) > 0
    /\ Len(result.union_results) > 0
    /\ Len(result.tag_step_results) > 0

(***************************************************************************)
(* C5.  The caller always receives a ProtocolResult: run lets no           *)
(* exception escape, whatever the LUT, the reader, the actuator and the    *)
(* progress callback do.  The code calls get_beam_presets outside its try  *)
(* block, so this fails.                                                   *)
(***************************************************************************)
C5_AlwaysReturnsResult == pc # "escaped"

(***************************************************************************)
(* C6.  Voltage safety.  For every LUT file, every port configuration      *)
(* (the two calibrated ones and one that is neither) and every angle, far  *)
(* out of the calibrated range included, both voltages of get_voltages     *)
(* lie in [0.0, 8.5]; and every pair written to the actuator in a step of  *)
(* a run lies in [0.0, 8.5].                                               *)
(***************************************************************************)
AllLuts == {LutFull, LutConfig0Only, LutSingleRow, LutMissing, LutNoAngleCol}
TestAngles == {-9000, -300, -250, -200, 0, 137, 200, 300, 9000}
InRange(v) == VMin <= v /\ v <= VMax

C6_VoltageSafety ==
    /\ pc = "idle" =>
          \A lut \in AllLuts, port_config \in {0, 1, 2}, a \in TestAngles :
             /\ InRange(get_voltages(lut, port_config, a)[1])
             /\ InRange(get_voltages(lut, port_config, a)[2])
    /\ volts # None => InRange(Val(volts)[1]) /\ InRange(Val(volts)[2])
    /\ \A i \in 1..Len(hwlog) :
          hwlog[i][1] = "write" =>
             InRange(hwlog[i][3][1]) /\ InRange(hwlog[i][3][2])

\* a step at an angle outside the calibrated range: the interpolators
\* extrapolate below 0 V and above 8.5 V, and the pair written is the clamp
C6_Witness ==
    \E i \in 1..Len(hwlog) :
       /\ hwlog[i][1] = "write"
       /\ hwlog[i][3] = <<VMin, VMax>>
       /\ Interp(ConfigRows(world.lut, cfg.port_config), 3,
                 steps[beam_i].angle) < VMin
       /\ Interp(ConfigRows(world.lut, cfg.port_config), 4,
                 steps[beam_i].angle) > VMax
       /\ pc = "clear"

(***************************************************************************)
(* C7.  Coverage monotonicity.  For every repeat and each antenna, the     *)
(* UnionResult's targets-seen count is at least the targets-seen count of  *)
(* every StepResult of that repeat; and while a repeat is swept, the       *)
(* running union target set holds the targets of every step of the repeat  *)
(* folded in so far, so it never shrinks.                                  *)
(***************************************************************************)
StepsOfRepeat(r) ==
    {k \in 1..Len(result.step_results) : result.step_results[k].repeat = r}

C7_CoverageMonotone ==
    /\ \A j \in 1..Len(result.union_results) :
          \A k \in StepsOfRepeat(result.union_results[j].repeat) :
             /\ result.union_results[j].ant1_targets_seen
                   >= result.step_results[k].ant1_targets_seen_n
             /\ result.union_results[j].ant2_targets_seen
                   >= result.step_results[k].ant2_targets_seen_n
    /\ pc \in {"step_check", "actuate", "clear", "snapshot", "end_repeat"} =>
          \A k \in StepsOfRepeat(repeat) :
             /\ result.step_results[k].ant1_targets \subseteq union.ant1_targets
             /\ result.step_results[k].ant2_targets \subseteq union.ant2_targets

\* two tags seen by antenna 1 in different beam states: the union counts
\* both, each step one at most
C7_Witness ==
    \E j \in 1..Len(result.union_results) :
       /\ result.union_results[j].ant1_targets_seen = 2
       /\ \A k \in StepsOfRepeat(result.union_results[j].repeat) :
             result.step_results[k].ant1_targets_seen_n <= 1
       /\ Len(result.step_results) = 3

(***************************************************************************)
(* The observations of a tag by an antenna in a repeat, read from the      *)
(* TagStepResults of the run: the positions of the TagStepResults of that  *)
(* repeat and suffix in which the antenna saw the tag.                     *)
(***************************************************************************)
Obs(r, suffix, ant) ==
    {k \in 1..Len(result.tag_step_results) :
        /\ result.tag_step_results[k].repeat = r
        /\ result.tag_step_results[k].tag_suffix = suffix
        /\ IF ant = 1 THEN result.tag_step_results[k].ant1_seen
           ELSE result.tag_step_results[k].ant2_seen}

ObsRssi(k, ant) ==
    IF ant = 1 THEN Val(result.tag_step_results[k].ant1_rssi)
    ELSE Val(result.tag_step_results[k].ant2_rssi)

ObsBeam(k) == result.tag_step_results[k].beam_state

\* the verdict fields of a UnionResult for one antenna
Verdict(u, ant) ==
    IF ant = 1
    THEN [beam |-> u.ant1_best_beam, rssi |-> u.ant1_best_rssi,
          seen_n |-> u.ant1_seen_beams_n, margin |-> u.ant1_best_margin,
          tie |-> u.ant1_tie_flag, conf |-> u.ant1_best_confidence,
          missed |-> u.ant1_missed]
    ELSE [beam |-> u.ant2_best_beam, rssi |-> u.ant2_best_rssi,
          seen_n |-> u.ant2_seen_beams_n, margin |-> u.ant2_best_margin,
          tie |-> u.ant2_tie_flag, conf |-> u.ant2_best_confidence,
          missed |-> u.ant2_missed]

RegisteredSuffixes == SeqToSet(suffixes(world.tags))

(***************************************************************************)
(* C8.  Best beam with two or more observations.  For an active antenna    *)
(* and a tag seen in at least two beam states of the repeat, the verdict's *)
(* beam is one with the maximum RSSI, rssi is that maximum, the number of  *)
(* beams is the number of observations, margin is the best RSSI minus the  *)
(* second-best, the tie flag is 1 exactly when the margin is 0, and the    *)
(* confidence is HIGH for a margin of 3.0 dB or more, MED from 1.0 dB to   *)
(* below 3.0 dB, LOW otherwise.                                            *)
(***************************************************************************)
C8_BestBeamOfSeveral ==
    \A j \in 1..Len(result.union_results) :
       \A ant \in result.active_antennas, s \in RegisteredSuffixes :
          LET u == result.union_results[j]
              v == Verdict(u, ant)
              obs == Obs(u.repeat, s, ant)
              best == SetMax({ObsRssi(k, ant) : k \in obs})
              top == {k \in obs : ObsRssi(k, ant) = best}
              second == IF Cardinality(top) >= 2 THEN best
                        ELSE SetMax({ObsRssi(k, ant) : k \in obs \ top})
          IN  Cardinality(obs) >= 2 =>
                /\ v.beam[s] \in {ObsBeam(k) : k \in top}
                /\ s \in DOMAIN v.rssi /\ v.rssi[s] = best
                /\ v.seen_n[s] = Cardinality(obs)
                /\ s \in DOMAIN v.margin /\ v.margin[s] = best - second
                /\ v.tie[s] = 1 <=> v.margin[s] = 0
                /\ v.tie[s] \in {0, 1}
                /\ v.conf[s] = IF v.margin[s] >= 30 THEN "HIGH"
                               ELSE IF v.margin[s] >= 10 THEN "MED"
                               ELSE "LOW"

\* a tag read in all three beam states, the best one exactly 3.0 dB above
\* the second
C8_Witness ==
    \E j \in 1..Len(result.union_results) :
       LET u == result.union_results[j]
       IN  /\ 1 \in result.active_antennas
           /\ Cardinality(Obs(u.repeat, Tag1.suffix, 1)) = 3
           /\ u.ant1_best_beam[Tag1.suffix] = "RIGHT"
           /\ u.ant1_best_margin[Tag1.suffix] = 30
           /\ u.ant1_best_confidence[Tag1.suffix] = "HIGH"

(***************************************************************************)
(* C9.  Best beam with no or one observation.  For an active antenna, a    *)
(* tag seen in no beam state of the repeat gets beam MISS, no RSSI, a      *)
(* count of 0, no margin, tie flag 0 and confidence NONE; a tag seen in    *)
(* exactly one beam state gets that beam and its RSSI, a count of 1, no    *)
(* margin, tie flag 0 and confidence SINGLE.                               *)
(***************************************************************************)
C9_BestBeamOfFew ==
    \A j \in 1..Len(result.union_results) :
       \A ant \in result.active_antennas, s \in RegisteredSuffixes :
          LET u == result.union_results[j]
              v == Verdict(u, ant)
              obs == Obs(u.repeat, s, ant)
          IN  /\ obs = {} =>
                   /\ v.beam[s] = "MISS"
                   /\ s \notin DOMAIN v.rssi
                   /\ v.seen_n[s] = 0
                   /\ s \notin DOMAIN v.margin
                   /\ v.tie[s] = 0
                   /\ v.conf[s] = "NONE"
              /\ Cardinality(obs) = 1 =>
                   \A k \in obs :
                      /\ v.beam[s] = ObsBeam(k)
                      /\ s \in DOMAIN v.rssi /\ v.rssi[s] = ObsRssi(k, ant)
                      /\ v.seen_n[s] = 1
                      /\ s \notin DOMAIN v.margin
                      /\ v.tie[s] = 0
                      /\ v.conf[s] = "SINGLE"

\* a run of two repeats: the tag is read once in the first and never in the
\* second
C9_Witness ==
    /\ Len(result.union_results) = 2
    /\ 1 \in result.active_antennas
    /\ Cardinality(Obs(1, Tag1.suffix, 1)) = 1
    /\ Obs(2, Tag1.suffix, 1) = {}
    /\ result.union_results[1].ant1_best_confidence[Tag1.suffix] = "SINGLE"
    /\ result.union_results[2].ant1_best_beam[Tag1.suffix] = "MISS"

(***************************************************************************)
(* C10.  Disabled-antenna isolation.  In every UnionResult, for an         *)
(* antenna that is not among the active antennas, every registered tag     *)
(* has beam DISABLED and confidence DISABLED, whatever that antenna        *)
(* reported during the repeat, and the antenna's missed list is empty      *)
(* whatever the size of the registry.                                      *)
(***************************************************************************)
C10_DisabledAntennaIsolation ==
    \A j \in 1..Len(result.union_results) :
       \A ant \in {1, 2} \ result.active_antennas :
          LET v == Verdict(result.union_results[j], ant)
          IN  /\ DOMAIN v.beam = RegisteredSuffixes
              /\ DOMAIN v.conf = RegisteredSuffixes
              /\ \A s \in RegisteredSuffixes :
                    v.beam[s] = "DISABLED" /\ v.conf[s] = "DISABLED"
              /\ v.missed = << >>

\* a registry of two tags, antenna 2 disabled: it reported one of the tags
\* during the repeat and not the other
C10_Witness ==
    \E j \in 1..Len(result.union_results) :
       LET u == result.union_results[j]
       IN  /\ result.active_antennas = {1}
           /\ Len(world.tags) = 2
           /\ Obs(u.repeat, Tag1.suffix, 2) # {}
           /\ Obs(u.repeat, Tag2.suffix, 2) = {}
           /\ u.ant2_best_beam[Tag1.suffix] = "DISABLED"
           /\ u.ant2_missed = << >>

(***************************************************************************)
(* The run went through its prerequisite check and no step raised: it      *)
(* ended after all repeats or after an early stop, and is past line 348.   *)
(***************************************************************************)
EndedNormally ==
    pc \in {"reset", "returned"} /\ at_raise = None /\ ~PrerequisiteFails

\* some step of the run recorded a reading on the antenna
AnyReading(ant) ==
    \E k \in 1..Len(result.step_results) :
       IF ant = 1 THEN result.step_results[k].ant1_unique_epc_n > 0
       ELSE result.step_results[k].ant2_unique_epc_n > 0

HealthOf(ant) == IF ant = 1 THEN result.ant1_health ELSE result.ant2_health

(***************************************************************************)
(* C11.  Health classification as the specification states it: when run    *)
(* ends after all repeats or after an early stop, each antenna's health    *)
(* is NO_TAG_REPORTS if the antenna was active and no step of the run      *)
(* recorded a reading on it, and OK otherwise; success is true and the     *)
(* end timestamp is set.  An antenna that is not active is DISABLED, not   *)
(* OK: see C11_HealthOfThree.                                              *)
(***************************************************************************)
C11_HealthOfTwo ==
    EndedNormally =>
        /\ \A ant \in {1, 2} :
              HealthOf(ant) =
                 IF ant \in result.active_antennas /\ ~AnyReading(ant)
                 THEN "NO_TAG_REPORTS" ELSE "OK"
        /\ result.success
        /\ result.end_time = "set"

(***************************************************************************)
(* C11, amended.  When run ends after all repeats or after an early stop,  *)
(* the health of an antenna that is not active is DISABLED; the health of  *)
(* an active antenna is NO_TAG_REPORTS if no step of the whole run         *)
(* recorded a reading on it and OK otherwise; success is true and the end  *)
(* timestamp is set.                                                       *)
(***************************************************************************)
C11_HealthOfThree ==
    EndedNormally =>
        /\ \A ant \in {1, 2} :
              HealthOf(ant) =
                 IF ant \notin result.active_antennas THEN "DISABLED"
                 ELSE IF ~AnyReading(ant) THEN "NO_TAG_REPORTS"
                 ELSE "OK"
        /\ result.success
        /\ result.end_time = "set"

\* both antennas active, readings on antenna 2 only, the run stopped early
C11_Witness ==
    /\ EndedNormally /\ stop_observed
    /\ result.active_antennas = {1, 2}
    /\ result.ant1_health = "NO_TAG_REPORTS"
    /\ result.ant2_health = "OK"
    /\ AnyReading(2)

(***************************************************************************)
(* The telemetry map inv agrees with the reports accepted since the last   *)
(* clear_data: an EPC has an entry exactly when a report for it was        *)
(* accepted, the entry holds the data of the last such report, and its     *)
(* count is their number.                                                  *)
(***************************************************************************)
MapAgrees(inv, since) ==
    /\ \A i \in 1..Len(inv) : inv[i].epc \in DOMAIN since
    /\ \A e \in DOMAIN since :
          IF since[e] = None THEN IndexOfEpc(inv, e) = 0
          ELSE /\ IndexOfEpc(inv, e) # 0
               /\ inv[IndexOfEpc(inv, e)].count = Val(since[e]).count
               /\ inv[IndexOfEpc(inv, e)].rssi = Val(since[e]).rssi
               /\ inv[IndexOfEpc(inv, e)].antenna = Val(since[e]).antenna
    /\ \A i, j \in 1..Len(inv) : inv[i].epc = inv[j].epc => i = j

ListenerInside == lst.pc \in {"read", "write", "release"}
OrchestratorInside ==
    orc.pc \in {"clearing", "clear_release", "copying", "get_release"}

(***************************************************************************)
(* C12.  Telemetry map under concurrency.  For every interleaving of the   *)
(* listener's reports with clear_data and get_all_data: the locked         *)
(* sections exclude each other; the entry of an EPC holds the data of the  *)
(* last report accepted for it and its count is the number of reports      *)
(* accepted for it since the most recent clear_data (no increment is lost, *)
(* no count survives a clear); and what get_all_data returns is the map    *)
(* of one moment.                                                          *)
(***************************************************************************)
C12_TelemetryMapAtomic ==
    /\ ~(ListenerInside /\ OrchestratorInside)
    /\ ListenerInside => lock = "listener"
    /\ OrchestratorInside => lock = "orch"
    /\ MapAgrees(inventory, since_clear)
    /\ snap # None => MapAgrees(Val(snap).inv, Val(snap).since)

\* an EPC reported twice before a clear and once after it: the snapshot
\* before the clear held count 2, the map now holds count 1
C12_Witness ==
    /\ snap # None
    /\ Val(snap).step = 1
    /\ Val(snap).inv # << >>
    /\ Val(snap).inv[1].epc = EpcTag1 /\ Val(snap).inv[1].count = 2
    /\ orc.steps = 1 /\ orc.pc = "dwelling"
    /\ IndexOfEpc(inventory, EpcTag1) # 0
    /\ inventory[IndexOfEpc(inventory, EpcTag1)].count = 1
    /\ nReports = 3

(***************************************************************************)
(* The EPCs reported to an antenna between the clear and the snapshot of   *)
(* the step last snapshotted (antenna 1 takes every report that is not     *)
(* antenna 2's, as _split_inventory_by_antenna does).                      *)
(***************************************************************************)
ReportedInWindow(ant) ==
    {e \in DOMAIN Val(snap).since :
        /\ Val(snap).since[e] # None
        /\ (Val(Val(snap).since[e]).antenna = 2) = (ant = 2)}

TagStepsOfStep(k) ==
    {i \in 1..Len(result.tag_step_results) :
        result.tag_step_results[i].step = k}

(***************************************************************************)
(* C13.  Sampling window of a step.  Every completed step performed, in    *)
(* this order, the actuator write (unless FIXED), the settle, the clear,   *)
(* the dwell and the snapshot.  The EPCs counted in a step's StepResult    *)
(* are exactly those reported between the step's clear and its snapshot,   *)
(* and a TagStepResult marks a tag seen only for such an EPC, with the     *)
(* count and RSSI of the reports of that window: a reading ingested        *)
(* before the clear (in an earlier step, or during the settle)             *)
(* contributes nothing.                                                    *)
(***************************************************************************)
C13_SamplingWindow ==
    /\ \A k \in 1..Len(result.step_results) :
          OpNames(hwlog, k) =
             (IF result.step_results[k].v_ch1 = None THEN << >>
              ELSE <<"write">>) \o <<"settle", "clear", "dwell", "snapshot">>
    /\ snap # None =>
          LET k == Val(snap).step
              sr == result.step_results[k]
          IN  /\ k <= Len(result.step_results)
              /\ sr.ant1_unique_epc_n = Cardinality(ReportedInWindow(1))
              /\ sr.ant2_unique_epc_n = Cardinality(ReportedInWindow(2))
              /\ sr.ant1_targets \subseteq
                    {Last4(e) : e \in ReportedInWindow(1)}
              /\ sr.ant2_targets \subseteq
                    {Last4(e) : e \in ReportedInWindow(2)}
              /\ \A i \in TagStepsOfStep(k) :
                    LET ts == result.tag_step_results[i]
                    IN  /\ ts.ant1_seen =>
                             \E e \in ReportedInWindow(1) :
                                /\ EndsWith(e, ts.tag_suffix)
                                /\ ts.ant1_count =
                                      Val(Val(snap).since[e]).count
                                /\ ts.ant1_rssi =
                                      Some(Val(Val(snap).since[e]).rssi)
                        /\ ts.ant2_seen =>
                             \E e \in ReportedInWindow(2) :
                                /\ EndsWith(e, ts.tag_suffix)
                                /\ ts.ant2_count =
                                      Val(Val(snap).since[e]).count
                                /\ ts.ant2_rssi =
                                      Some(Val(Val(snap).since[e]).rssi)

\* the only report of the run was ingested before the clear of the first
\* step: the step counts nothing
C13_Witness ==
    /\ snap # None /\ Val(snap).step = 1
    /\ pc = "step_check"
    /\ nReports = 1 /\ runs = 1
    /\ inventory = << >>
    /\ result.step_results[1].ant1_unique_epc_n = 0
    /\ result.step_results[1].ant2_unique_epc_n = 0
    /\ \A i \in TagStepsOfStep(1) :
          ~result.tag_step_results[i].ant1_seen
          /\ ~result.tag_step_results[i].ant2_seen

(***************************************************************************)
(* C14.  Progress reporting.  The progress callback is invoked once for    *)
(* every step that passed its stop check, before any hardware operation    *)
(* of the step, and never otherwise: outside a step in flight, a run in    *)
(* which no step raised has as many invocations as StepResults.  The k-th  *)
(* invocation carries k / (repeats x number of beam states), so the        *)
(* fractions increase strictly and lie in [0, 1].                          *)
(***************************************************************************)
C14_ProgressPerStep ==
    /\ Len(progress) = current_step
    /\ \A k \in 1..Len(progress) :
          /\ progress[k][2] = Total /\ Total > 0
          /\ progress[k][1] = k
          /\ 0 <= progress[k][1] /\ progress[k][1] <= progress[k][2]
          /\ k > 1 => progress[k - 1][1] * progress[k][2]
                         < progress[k][1] * progress[k - 1][2]
    /\ \A i \in 1..Len(hwlog) : hwlog[i][2] <= Len(progress)
    /\ (at_raise = None /\ pc \notin {"actuate", "clear", "snapshot"}) =>
          Len(progress) = Len(result.step_results)
    /\ at_raise # None => Len(progress) = Len(result.step_results) + 1

\* a complete run of two repeats of three beam states: six invocations, the
\* last one with fraction 1
C14_Witness ==
    /\ EndedNormally /\ ~stop_in_run
    /\ Len(progress) = 6
    /\ progress[6] = <<6, 6>>
    /\ progress[1] = <<1, 6>>
    /\ Len(result.step_results) = 6

\* the positions in hwlog of the operations of step k named op
OpsAt(k, op) == {i \in 1..Len(hwlog) : hwlog[i][2] = k /\ hwlog[i][1] = op}

(***************************************************************************)
(* C15.  FIXED mode.  When antenna 1 is not among the active antennas the  *)
(* beam sequence is the single state FIXED, no step writes to the          *)
(* actuator or records voltages, and the run succeeds whether or not the   *)
(* actuator is connected (given a connected reader and no exception).  In  *)
(* every other run each completed step wrote to the actuator exactly       *)
(* once, the voltages get_voltages gives for the step's angle, before the  *)
(* settle, and recorded them.                                              *)
(***************************************************************************)
C15_FixedMode ==
    pc \notin {"idle", "escaped"} =>
       IF 1 \notin cfg.active_antennas
       THEN /\ steps = << [name |-> "FIXED", angle |-> 0] >>
            /\ \A i \in 1..Len(hwlog) : hwlog[i][1] # "write"
            /\ \A k \in 1..Len(result.step_results) :
                  /\ result.step_results[k].beam_state = "FIXED"
                  /\ result.step_results[k].v_ch1 = None
                  /\ result.step_results[k].v_ch2 = None
            /\ (Returned /\ world.reader_connected /\ at_raise = None) =>
                  result.success
       ELSE /\ \A i \in 1..Len(steps) : steps[i].name # "FIXED"
            /\ \A k \in 1..Len(result.step_results) :
                  LET sr == result.step_results[k]
                      v == get_voltages(world.lut, cfg.port_config,
                                        sr.angle_deg)
                  IN  /\ Cardinality(OpsAt(k, "write")) = 1
                      /\ \A i \in OpsAt(k, "write") :
                            /\ hwlog[i][3] = v
                            /\ \A j \in OpsAt(k, "settle") : i < j
                      /\ sr.v_ch1 = Some(v[1])
                      /\ sr.v_ch2 = Some(v[2])

\* antenna 2 alone, the actuator not connected: two repeats of the FIXED
\* state, success
C15_Witness ==
    /\ Returned
    /\ cfg.active_antennas = {2}
    /\ ~world.mcu_connected
    /\ result.success
    /\ Len(result.step_results) = 2
    /\ hwlog # << >>

(***************************************************************************)
(* C16.  Round-trip calibration.  For each channel and every voltage v in  *)
(* [0, 8.5] of the loaded or fallback phase table,                         *)
(* get_voltage(get_phase(v, channel), channel) is v within the tolerance   *)
(* of the interpolation (5 mV here).  get_phase reduces the phase modulo   *)
(* 360, and the fallback table reaches 363.42 degrees at 8.5 V, so the     *)
(* voltages above 8.42 V come back near 0 V.                               *)
(***************************************************************************)
C16_RoundTrip ==
    cal.stage = "done" => Abs(cal.back - cal.v) <= 5

(***************************************************************************)
(* C17.  get_voltages returns (0.0, 0.0) whenever the requested port       *)
(* configuration has no loaded data.  As stated, that covers a LUT that    *)
(* failed to load, a table without rows for the configuration, and a       *)
(* configuration value for which no table exists.                          *)
(***************************************************************************)
C17_NoDataGivesZero ==
    (/\ cal.stage = "done"
     /\ \/ ~LutLoaded(cal.lut)
        \/ cal.port_config \notin {0, 1}
        \/ ConfigRows(cal.lut, cal.port_config) = << >>)
    => cal.out = <<0, 0>>

(***************************************************************************)
(* C17 as the code has it.  get_voltages returns (0.0, 0.0) whenever the   *)
(* LUT failed to load or the table has no rows for the configuration; a    *)
(* configuration value other than 0 and 1 is served from the table of      *)
(* configuration 0.                                                        *)
(***************************************************************************)
C17_NoDataGivesZeroOf01 ==
    cal.stage = "done" =>
       /\ ~LutLoaded(cal.lut) => cal.out = <<0, 0>>
       /\ (cal.port_config \in {0, 1}
             /\ ConfigRows(cal.lut, cal.port_config) = << >>)
          => cal.out = <<0, 0>>
       /\ (cal.port_config \notin {0, 1} /\ LutLoaded(cal.lut)
             /\ ConfigRows(cal.lut, 0) # << >>)
          => cal.out = <<Clamp(Interp(ConfigRows(cal.lut, 0), 3, cal.angle)),
                         Clamp(Interp(ConfigRows(cal.lut, 0), 4, cal.angle))>>

\* a loaded table without rows for configuration 1, asked for configuration 1
C17_Witness ==
    /\ cal.stage = "done"
    /\ LutLoaded(cal.lut)
    /\ cal.port_config = 1
    /\ ConfigRows(cal.lut, 1) = << >>
    /\ ConfigRows(cal.lut, 0) # << >>
    /\ cal.out = <<0, 0>>

(***************************************************************************)
(* C18.  A failure of the hardware voltage write during a step is a        *)
(* mid-run error: the sweep loop is aborted at that step, the results of   *)
(* the steps before it are preserved, and the run returns success=false.   *)
(* set_voltage catches the exception of the serial write and returns       *)
(* False, and _collect_step drops the value returned.                      *)
(***************************************************************************)
C18_WriteFailureAborts ==
    (/\ Returned
     /\ world.write_raises
     /\ \E i \in 1..Len(hwlog) : hwlog[i][1] = "write")
    => LET first == SetMin({hwlog[i][2] : i \in {j \in 1..Len(hwlog) :
                                                  hwlog[j][1] = "write"}})
       IN  /\ ~result.success
           /\ Len(result.step_results) = first - 1

\* the orchestrator is inside the actuator write, the settle sleep or the
\* dwell sleep of _collect_step
OrchestratorBlocked == orc.pc \in {"writing", "settling", "dwelling"}

(***************************************************************************)
(* C19.  The orchestrator thread never holds the telemetry lock while it   *)
(* is blocked in an actuator write or sleeping for the settle or the       *)
(* dwell: in every such state the lock is not the orchestrator's, and a    *)
(* listener waiting at its with block finds the lock free and can ingest   *)
(* its report.                                                             *)
(***************************************************************************)
C19_LockFreeWhileBlocked ==
    OrchestratorBlocked =>
       /\ lock # "orch"
       /\ lst.pc = "acquire" => lock = "free" /\ ENABLED L_Acquire

\* the listener stores a report under the lock while the orchestrator
\* sleeps in the dwell of its second step
C19_Witness ==
    /\ orc.pc = "dwelling"
    /\ orc.steps = 1
    /\ lst.pc = "release"
    /\ lock = "listener"
    /\ inventory # << >>

\* the number of beam states of a run, as the configuration determines it
SequenceLength(c) ==
    IF 1 \notin c.active_antennas THEN 1
    ELSE IF c.beam_steps = 3 THEN 3
    ELSE IF c.beam_steps >= 2 THEN c.beam_steps
    ELSE 1

(***************************************************************************)
(* C20.  Shape of a complete run.  When run finishes without a stop        *)
(* request or an exception, step_results holds exactly repeats x L entries *)
(* in repeat-major order following the beam sequence (L = 1 for FIXED, 3   *)
(* for the presets, beam_steps for the dense mode with beam_steps >= 2, 1  *)
(* for beam_steps < 2), and union_results holds one UnionResult per        *)
(* repeat, with the repeat indices 1..repeats in order.  Each UnionResult  *)
(* is appended after all steps of its repeat: at every moment of a run     *)
(* that has seen no stop request and no exception, the steps recorded are  *)
(* those of the repeats that have their union, and at most L more.         *)
(***************************************************************************)
C20_ShapeOfCompleteRun ==
    LET L == SequenceLength(cfg)
        sr == result.step_results
        ur == result.union_results
    IN  /\ (EndedNormally /\ ~stop_observed) =>
              /\ Len(steps) = L
              /\ Len(sr) = cfg.repeats * L
              /\ \A k \in 1..Len(sr) :
                    /\ sr[k].repeat = ((k - 1) \div L) + 1
                    /\ sr[k].beam_state = steps[((k - 1) % L) + 1].name
                    /\ sr[k].angle_deg = steps[((k - 1) % L) + 1].angle
                    /\ sr[k].step = k
              /\ Len(ur) = cfg.repeats
              /\ \A j \in 1..Len(ur) : ur[j].repeat = j
        /\ ((InRun \/ pc \in {"reset", "returned"})
               /\ ~stop_observed /\ at_raise = None) =>
              /\ L * Len(ur) <= Len(sr)
              /\ Len(sr) <= L * (Len(ur) + 1)

\* two repeats of a dense sweep of two beams: four steps and two unions
C20_Witness ==
    /\ Returned
    /\ at_raise = None
    /\ ~stop_observed
    /\ 1 \in cfg.active_antennas
    /\ cfg.repeats = 2
    /\ cfg.beam_steps = 2
    /\ Len(result.step_results) = 4
    /\ Len(result.union_results) = 2

\* the TagStepResult of step k for the i-th registered tag
TagStepAt(k, i) ==
    result.tag_step_results[(k - 1) * Len(world.tags) + i]

(***************************************************************************)
(* C21.  Tag matching is consistent within a step.  For every step, each   *)
(* antenna and each registered tag, the tag is in the StepResult's         *)
(* targets-seen set, and absent from the step's missed list, if and only   *)
(* if the tag's TagStepResult has seen=true for that antenna.  The         *)
(* StepResult matches on the last four characters of the EPC and the       *)
(* TagStepResult on endswith, so a tag whose suffix is not four characters *)
(* long is seen in one and missed in the other.                            *)
(***************************************************************************)
C21_MatchingConsistent ==
    \A k \in 1..Len(result.step_results) :
       \A i \in 1..Len(world.tags) :
          LET sr == result.step_results[k]
              ts == TagStepAt(k, i)
              sfx == world.tags[i].suffix
          IN  /\ Len(result.tag_step_results) >= k * Len(world.tags)
              /\ ts.tag_suffix = sfx
              /\ (sfx \in sr.ant1_targets) <=> ts.ant1_seen
              /\ (sfx \notin SeqToSet(sr.ant1_missed)) <=> ts.ant1_seen
              /\ (sfx \in sr.ant2_targets) <=> ts.ant2_seen
              /\ (sfx \notin SeqToSet(sr.ant2_missed)) <=> ts.ant2_seen

\* the suffixes matched on an antenna by some step of repeat j
MatchedInRepeat(j, ant) ==
    UNION {IF ant = 1 THEN result.step_results[k].ant1_targets
           ELSE result.step_results[k].ant2_targets :
              k \in {n \in 1..Len(result.step_results) :
                        result.step_results[n].repeat = j}}

\* the registry suffixes, in registry order, that are not in seen
RegistryWithout(seen) ==
    LET Unseen(sfx) == sfx \notin seen
    IN  SelectSeq(suffixes(world.tags), Unseen)

(***************************************************************************)
(* C22.  Union missed list.  For an active antenna the UnionResult's       *)
(* missed list is exactly the registry tags, in registry order, whose      *)
(* suffix is in no step's matched-target set of that repeat for that       *)
(* antenna; hence targets_seen plus the number of missed tags is           *)
(* tags_total.  (The suffixes of a registry are distinct: the suffix is    *)
(* the identity of a tag.)                                                 *)
(***************************************************************************)
C22_UnionMissedList ==
    \A j \in 1..Len(result.union_results) :
       LET ur == result.union_results[j]
       IN  /\ 1 \in cfg.active_antennas =>
                /\ ur.ant1_missed = RegistryWithout(MatchedInRepeat(ur.repeat, 1))
                /\ ur.ant1_targets_seen + Len(ur.ant1_missed) = ur.tags_total
           /\ 2 \in cfg.active_antennas =>
                /\ ur.ant2_missed = RegistryWithout(MatchedInRepeat(ur.repeat, 2))
                /\ ur.ant2_targets_seen + Len(ur.ant2_missed) = ur.tags_total

\* a repeat in which antenna 1 matched the first tag of the registry in one
\* step and never the second
C22_Witness ==
    /\ Len(result.union_results) = 1
    /\ 1 \in cfg.active_antennas
    /\ result.union_results[1].ant1_targets_seen = 1
    /\ result.union_results[1].ant1_missed = <<TagShort.suffix>>
    /\ result.union_results[1].tags_total = 2
    /\ Cardinality({k \in 1..Len(result.step_results) :
                      Tag1.suffix \in result.step_results[k].ant1_targets}) = 1
    /\ Len(result.step_results) = 3

\* the number of entries of a sub-snapshot equal to the entry info
Occurrences(sub, info) == Cardinality({i \in 1..Len(sub) : sub[i] = info})

(***************************************************************************)
(* C23.  Antenna split is a partition.  Every entry of a snapshot is       *)
(* placed in exactly one of the two sub-snapshots, in antenna 2's when its *)
(* antenna id is 2 and in antenna 1's for every other antenna id (a report *)
(* without an id counts as antenna 1), so ant1_unique_epc_n +              *)
(* ant2_unique_epc_n is the number of EPCs of the snapshot.                *)
(***************************************************************************)
C23_SplitIsPartition ==
    snap # None =>
       LET inv == Val(snap).inv
           inv1 == split_inventory_by_antenna(inv)[1]
           inv2 == split_inventory_by_antenna(inv)[2]
           sr == result.step_results[Val(snap).step]
       IN  /\ \A i \in 1..Len(inv) :
                 /\ Occurrences(inv1, inv[i]) =
                       (IF inv[i].antenna = 2 THEN 0 ELSE 1)
                 /\ Occurrences(inv2, inv[i]) =
                       (IF inv[i].antenna = 2 THEN 1 ELSE 0)
           /\ Len(result.step_results) >= Val(snap).step
           /\ sr.ant1_unique_epc_n = Len(inv1)
           /\ sr.ant2_unique_epc_n = Len(inv2)
           /\ sr.ant1_unique_epc_n + sr.ant2_unique_epc_n = Len(inv)

\* a snapshot with one EPC of antenna 2 and one of a third antenna port
C23_Witness ==
    /\ snap # None
    /\ Len(Val(snap).inv) = 2
    /\ \E i \in 1..2 : Val(snap).inv[i].antenna = 3
    /\ \E i \in 1..2 : Val(snap).inv[i].antenna = 2
    /\ result.step_results[Val(snap).step].ant1_unique_epc_n = 1
    /\ result.step_results[Val(snap).step].ant2_unique_epc_n = 1

\* no EPC of the sub-snapshot ends with the suffix
AbsentFrom(sub, suffix) == \A i \in 1..Len(sub) : ~EndsWith(sub[i].epc, suffix)

(***************************************************************************)
(* C24.  After any sequence of executed steps, stopped and failed runs     *)
(* included, tag_step_results holds exactly one TagStepResult per          *)
(* executed step and registered tag, in step order and in registry order   *)
(* within a step: its length is len(step_results) x number of registered   *)
(* tags, and a tag absent from an antenna's sub-snapshot has seen=false,   *)
(* no RSSI, no phase and count 0 for that antenna.                         *)
(***************************************************************************)
C24_OneTagStepPerStepAndTag ==
    LET n == Len(world.tags)
        tsr == result.tag_step_results
    IN  /\ Len(tsr) = Len(result.step_results) * n
        /\ \A k \in 1..Len(result.step_results) :
              \A i \in 1..n :
                 /\ tsr[(k - 1) * n + i].step = result.step_results[k].step
                 /\ tsr[(k - 1) * n + i].tag_suffix = world.tags[i].suffix
                 /\ tsr[(k - 1) * n + i].beam_state =
                       result.step_results[k].beam_state
        /\ (snap # None /\ Len(result.step_results) >= Val(snap).step) =>
              LET k == Val(snap).step
                  inv1 == split_inventory_by_antenna(Val(snap).inv)[1]
                  inv2 == split_inventory_by_antenna(Val(snap).inv)[2]
              IN  \A i \in 1..n :
                     LET ts == tsr[(k - 1) * n + i]
                     IN  /\ ts.ant1_seen = ~AbsentFrom(inv1, ts.tag_suffix)
                         /\ ts.ant2_seen = ~AbsentFrom(inv2, ts.tag_suffix)
                         /\ AbsentFrom(inv1, ts.tag_suffix) =>
                               /\ ts.ant1_rssi = None
                               /\ ts.ant1_phase = None
                               /\ ts.ant1_count = 0
                         /\ AbsentFrom(inv2, ts.tag_suffix) =>
                               /\ ts.ant2_rssi = None
                               /\ ts.ant2_phase = None
                               /\ ts.ant2_count = 0

\* a run stopped after its second step: four TagStepResults, and in the
\* second step the first tag seen on antenna 1 only and the second tag on
\* neither antenna
C24_Witness ==
    /\ Returned
    /\ stop_observed
    /\ Len(result.step_results) = 2
    /\ Len(result.tag_step_results) = 4
    /\ result.tag_step_results[3].ant1_seen
    /\ ~result.tag_step_results[3].ant2_seen
    /\ result.tag_step_results[3].ant2_count = 0
    /\ ~result.tag_step_results[4].ant1_seen
    /\ ~result.tag_step_results[4].ant2_seen

\* the pairs that reached the hardware in step k: those handed to the serial
\* port, unless the write raised
WrittenAt(k) ==
    IF world.write_raises THEN {}
    ELSE {hwlog[i][3] : i \in OpsAt(k, "write")}

(***************************************************************************)
(* C25.  Applied voltages are recorded faithfully.  For every StepResult   *)
(* of a beam state other than FIXED, (v_ch1, v_ch2) is the voltage pair    *)
(* the actuator wrote to the hardware for that step before the dwell was   *)
(* sampled.  The StepResult takes the pair from the LUT, whatever          *)
(* set_voltage did with it: when the serial write raises, the step records *)
(* voltages that were never applied.                                       *)
(***************************************************************************)
C25_VoltagesRecordedFaithfully ==
    pc \notin {"idle", "escaped"} =>
       \A k \in 1..Len(result.step_results) :
          LET sr == result.step_results[k]
          IN  sr.beam_state # "FIXED" =>
                 /\ sr.v_ch1 # None
                 /\ sr.v_ch2 # None
                 /\ <<Val(sr.v_ch1), Val(sr.v_ch2)>> \in WrittenAt(k)

\* no two steps of the sequence share a beam name
DistinctNames(stepSeq) ==
    \A i, j \in 1..Len(stepSeq) :
       stepSeq[i].name = stepSeq[j].name => i = j

(***************************************************************************)
(* C26.  Dense mode beam labels.  No two steps of a beam sequence share a  *)
(* beam name; if two generated angles round to the same label the run      *)
(* reports a validation error instead of letting the later step overwrite  *)
(* the earlier one in the per-tag beam-to-RSSI map.  run has no such       *)
(* check: from 602 beam steps on, two angles of the sweep from +30 to -30  *)
(* round to the same tenth of a degree and the run goes on.                *)
(***************************************************************************)
C26_DistinctLabelsOrError ==
    cal.stage = "done" => DistinctNames(cal.steps) \/ cal.error # ""

\* the commanded angles of the table get_beam_presets reads for a
\* configuration: that of configuration 0 for 0, of configuration 1 otherwise
TableAngles(lut, port_config) ==
    {lut.rows[i][1] :
        i \in {j \in 1..Len(lut.rows) :
                  /\ lut.exists
                  /\ lut.rows[j][2] = (IF port_config = 0 THEN 0 ELSE 1)}}

CallbackRaised ==
    at_raise # None /\ Val(at_raise).message \in CallbackMessages

(***************************************************************************)
(* C28.  SimpleInventoryProtocol.run, with the reader connected, repeats   *)
(* >= 1 and no stop request (and a dwell that can be slept and a progress  *)
(* callback that returns), performs one clear / dwell / snapshot           *)
(* collection per repeat and returns success=true with one StepResult of   *)
(* beam state OMNI and one UnionResult per repeat.  The run fails in the   *)
(* first repeat that sees a registered tag: building the StepResult calls  *)
(* TagManager.get_tag, which does not exist.                               *)
(***************************************************************************)
C28_InventoryRun ==
    (/\ Returned
     /\ world.reader_connected
     /\ cfg.repeats >= 1
     /\ ~stop_observed
     /\ cfg.dwell_s >= 0
     /\ ~CallbackRaised)
    => /\ result.success
       /\ Len(result.step_results) = cfg.repeats
       /\ Len(result.union_results) = cfg.repeats
       /\ \A k \in 1..Len(result.step_results) :
             /\ result.step_results[k].beam_state = "OMNI"
             /\ OpNames(hwlog, k) = <<"clear", "dwell", "snapshot">>
       /\ \A j \in 1..Len(result.union_results) :
             result.union_results[j].repeat = j

\* the arguments of the set_voltage calls of the run, in order
VoltageCalls(log) ==
    LET IsCall(e) == e[1] = "set_voltage"
        calls == SelectSeq(log, IsCall)
    IN  [i \in 1..Len(calls) |-> calls[i][3]]

\* the pairs handed to the serial port by the run, in order
SerialWrites(log) ==
    LET IsWrite(e) == e[1] = "write"
        writes == SelectSeq(log, IsWrite)
    IN  [i \in 1..Len(writes) |-> writes[i][3]]

EndsWithZero(s) == s # << >> /\ s[Len(s)] = <<0, 0>>

\* C29: a calibration sweep that passed the reader-connected check returns
\* with set_voltage(0, 0) as the last actuator command it issued (and, when
\* the MCU is connected, as the last pair handed to the serial port) and
\* with the stop flag false, whether the sweep completed, was stopped or
\* ended in a caught exception.
C29_SweepResetsBeam ==
    [][(InRun /\ pc' = "returned")
          => /\ pc = "k_reset"
             /\ EndsWithZero(VoltageCalls(hwlog'))
             /\ world.mcu_connected => EndsWithZero(SerialWrites(hwlog'))
             /\ stop_requested' = FALSE]_vars

\* a sweep that steered the beam away from zero, then ended in a caught
\* exception after a stop request, has returned with the beam reset
C29_Witness ==
    /\ pc = "returned"
    /\ world.reader_connected /\ world.mcu_connected
    /\ at_raise # None
    /\ stop_in_run
    /\ ~stop_requested
    /\ Len(VoltageCalls(hwlog)) >= 2
    /\ VoltageCalls(hwlog)[1] # <<0, 0>>
    /\ EndsWithZero(VoltageCalls(hwlog))
    /\ EndsWithZero(SerialWrites(hwlog))

\* the beams of repeat r in which the i-th registered tag was seen on the
\* antenna, from the TagStepResults of the steps of the repeat
BeamsThatSaw(r, i, ant) ==
    {result.step_results[k].beam_state :
       k \in {n \in StepsOfRepeat(r) :
                IF ant = 1 THEN TagStepAt(n, i).ant1_seen
                           ELSE TagStepAt(n, i).ant2_seen}}

\* the registered suffixes matched on the antenna in the steps of repeat r
TargetsOfRepeat(r, ant) ==
    UNION {IF ant = 1 THEN result.step_results[k].ant1_targets
                      ELSE result.step_results[k].ant2_targets :
           k \in StepsOfRepeat(r)}

(***************************************************************************)
(* C30.  A stop during a repeat still yields a union.  Every UnionResult   *)
(* is computed from the steps of its repeat that were executed and from    *)
(* nothing else: its target counts are those of the targets matched in     *)
(* these steps, and per registered tag and active antenna the number of    *)
(* beams that saw the tag is counted over these steps, with best beam      *)
(* MISS exactly when there is none (so for every tag when no step of the   *)
(* repeat was executed).  After a run that did not raise, union_results    *)
(* holds one entry per repeat that passed the stop check of the outer      *)
(* loop, cut short or not.                                                 *)
(***************************************************************************)
C30_StoppedRepeatHasUnion ==
    LET ur == result.union_results
    IN  /\ \A j \in 1..Len(ur) :
              /\ ur[j].repeat = j
              /\ ur[j].ant1_targets_seen
                    = Cardinality(TargetsOfRepeat(j, 1))
              /\ ur[j].ant2_targets_seen
                    = Cardinality(TargetsOfRepeat(j, 2))
              /\ \A i \in 1..Len(world.tags) :
                    LET s == world.tags[i].suffix
                    IN  /\ 1 \in cfg.active_antennas =>
                              /\ ur[j].ant1_seen_beams_n[s]
                                    = Cardinality(BeamsThatSaw(j, i, 1))
                              /\ ur[j].ant1_best_beam[s] = "MISS"
                                    <=> BeamsThatSaw(j, i, 1) = {}
                        /\ 2 \in cfg.active_antennas =>
                              /\ ur[j].ant2_seen_beams_n[s]
                                    = Cardinality(BeamsThatSaw(j, i, 2))
                              /\ ur[j].ant2_best_beam[s] = "MISS"
                                    <=> BeamsThatSaw(j, i, 2) = {}
        /\ (pc \in {"finish", "reset", "returned"} /\ at_raise = None) =>
              Len(ur) = repeats_passed

\* a run of two repeats of three beams stopped inside the second repeat: the
\* second union is there, computed from the one step that was executed,
\* which saw the tag; the first repeat missed it
C30_Witness ==
    /\ Returned
    /\ at_raise = None
    /\ stop_observed
    /\ cfg.repeats = 2
    /\ Len(steps) = 3
    /\ Len(result.step_results) = 4
    /\ repeats_passed = 2
    /\ Len(result.union_results) = 2
    /\ 1 \in cfg.active_antennas
    /\ result.union_results[1].ant1_best_beam[Tag1.suffix] = "MISS"
    /\ result.union_results[2].ant1_targets_seen = 1
    /\ result.union_results[2].ant1_seen_beams_n[Tag1.suffix] = 1

(***************************************************************************)
(* C31.  The stop flag is false whenever AFSUAMProtocol.run has returned,  *)
(* whatever the outcome: every step that ends a run in progress by a       *)
(* return leaves the flag false.  The code does not do this on the         *)
(* prerequisite returns of lines 135-143.                                  *)
(***************************************************************************)
C31_FlagClearOnReturn ==
    [][(InRun /\ pc' = "returned") => stop_requested' = FALSE]_vars

(***************************************************************************)
(* C32.  A stop() call made while no run is in progress has no effect on   *)
(* a later run: a run with satisfied prerequisites that has returned       *)
(* without an error and without a stop() call during it has executed all   *)
(* of its repeats x beam states steps.  The code does not do this: the     *)
(* flag is set by stop() at any time and cleared only at the end of run.   *)
(***************************************************************************)
C32_IdleStopIsForgotten ==
    (Returned /\ EndedNormally /\ ~stop_in_run) =>
        Len(result.step_results) = Total

\* the place of a beam state in the beam sequence of the run
PlaceOf(beam_state) ==
    SetMin({i \in 1..Len(steps) : steps[i].name = beam_state})

(***************************************************************************)
(* C33.  Tie-break determinism.  For an active antenna and a tag seen in   *)
(* some beam state of the repeat, the best beam of the UnionResult is,     *)
(* among the beam states whose observation has the maximum RSSI, the one   *)
(* that comes earliest in the beam sequence of the run.                    *)
(***************************************************************************)
C33_EarliestBeamWinsTie ==
    \A j \in 1..Len(result.union_results) :
       \A ant \in result.active_antennas, s \in RegisteredSuffixes :
          LET u == result.union_results[j]
              v == Verdict(u, ant)
              obs == Obs(u.repeat, s, ant)
              best == SetMax({ObsRssi(k, ant) : k \in obs})
              top == {ObsBeam(k) : k \in {n \in obs : ObsRssi(n, ant) = best}}
          IN  obs # {} =>
                /\ v.beam[s] \in top
                /\ \A b \in top : PlaceOf(v.beam[s]) <= PlaceOf(b)

\* a tag read at the same, highest strength in CENTER and in RIGHT and at a
\* lower one in LEFT: the best beam is CENTER
C33_Witness ==
    \E j \in 1..Len(result.union_results) :
       LET u == result.union_results[j]
           obs == Obs(u.repeat, Tag1.suffix, 1)
       IN  /\ 1 \in result.active_antennas
           /\ Cardinality(obs) = 3
           /\ \E k1, k2, k3 \in obs :
                 /\ ObsBeam(k1) = "LEFT" /\ ObsBeam(k2) = "CENTER"
                 /\ ObsBeam(k3) = "RIGHT"
                 /\ ObsRssi(k1, 1) < ObsRssi(k2, 1)
                 /\ ObsRssi(k2, 1) = ObsRssi(k3, 1)
           /\ u.ant1_best_beam[Tag1.suffix] = "CENTER"
           /\ u.ant1_tie_flag[Tag1.suffix] = 1

(***************************************************************************)
(* C34.  Within one step an EPC is attributed to at most one antenna.  The *)
(* antenna-1 and antenna-2 EPC sets of every step are disjoint, and in the *)
(* step last snapshotted every EPC reported between the clear and the      *)
(* snapshot is in the set of the antenna of its last report and in no      *)
(* other (antenna 1 takes every report that is not antenna 2's).           *)
(***************************************************************************)
C34_OneAntennaPerEpc ==
    /\ \A k \in 1..Len(result.step_results) :
          /\ result.step_results[k].ant1_epcs
                \cap result.step_results[k].ant2_epcs = {}
          /\ result.step_results[k].ant1_unique_epc_n
                = Cardinality(result.step_results[k].ant1_epcs)
          /\ result.step_results[k].ant2_unique_epc_n
                = Cardinality(result.step_results[k].ant2_epcs)
    /\ (snap # None /\ Val(snap).step <= Len(result.step_results)) =>
          LET sr == result.step_results[Val(snap).step]
          IN  /\ sr.ant1_epcs = ReportedInWindow(1)
              /\ sr.ant2_epcs = ReportedInWindow(2)

\* an EPC reported on antenna 1 and then on antenna 2 during the dwell of a
\* step is counted for antenna 2 only
C34_Witness ==
    /\ snap # None
    /\ Val(snap).step <= Len(result.step_results)
    /\ LET since == Val(snap).since[EpcTag1]
           sr == result.step_results[Val(snap).step]
       IN  /\ since # None
           /\ Val(since).antennas = {1, 2}
           /\ Val(since).antenna = 2
           /\ EpcTag1 \in sr.ant2_epcs
           /\ EpcTag1 \notin sr.ant1_epcs
           /\ sr.ant1_unique_epc_n = 0
           /\ sr.ant2_unique_epc_n = 1

(***************************************************************************)
(* C35.  Snapshot isolation.  Every map returned by get_all_data holds,    *)
(* whatever reports and clear_data calls came afterwards, the keys and the *)
(* entries (rssi, phase, antenna, count) it held when it was returned.     *)
(***************************************************************************)
C35_SnapshotIsolation ==
    \A t \in 1..Len(cal.taken) :
       Deref(cal.entries, cal.maps[cal.taken[t].map]) = cal.taken[t].value

\* a snapshot with one read of a tag; then a second report of the tag (seen
\* by a second snapshot) and a clear_data: the first snapshot still holds
\* the one read
C35_Witness ==
    /\ Len(cal.taken) = 2
    /\ Len(cal.taken[1].value) = 1
    /\ cal.taken[1].value[1].epc = EpcTag1
    /\ cal.taken[1].value[1].count = 1
    /\ Len(cal.taken[2].value) = 1
    /\ cal.taken[2].value[1].epc = EpcTag1
    /\ cal.taken[2].value[1].count = 2
    /\ cal.taken[2].value[1].rssi # cal.taken[1].value[1].rssi
    /\ cal.maps[cal.inventory] = << >>
    /\ cal.inventory # 1
    /\ Deref(cal.entries, cal.maps[cal.taken[1].map])[1].count = 1

(***************************************************************************)
(* C36.  Union verdict and missed list agree.  In every UnionResult, for   *)
(* an active antenna and every registered tag, the tag is in the missed    *)
(* list of the antenna if and only if its best beam is MISS, if and only   *)
(* if its number of beams is 0.  The code does not do this for a tag whose *)
(* suffix is not four characters long: the missed list is built from the   *)
(* last four characters of the EPCs, the verdict from _find_tag_info.      *)
(***************************************************************************)
C36_VerdictAndMissedAgree ==
    \A j \in 1..Len(result.union_results) :
       \A ant \in result.active_antennas, s \in RegisteredSuffixes :
          LET v == Verdict(result.union_results[j], ant)
          IN  /\ (s \in SeqToSet(v.missed)) <=> (v.beam[s] = "MISS")
              /\ (v.beam[s] = "MISS") <=> (v.seen_n[s] = 0)

EpcsOfRepeat(r, ant) ==
    UNION {IF ant = 1 THEN result.step_results[k].ant1_epcs
                      ELSE result.step_results[k].ant2_epcs :
           k \in StepsOfRepeat(r)}

\* every UnionResult is that of the steps of its repeat
UnionOfOwnSteps ==
    \A j \in 1..Len(result.union_results) :
       LET u == result.union_results[j]
       IN  /\ u.ant1_unique_epcs = Cardinality(EpcsOfRepeat(u.repeat, 1))
           /\ u.ant2_unique_epcs = Cardinality(EpcsOfRepeat(u.repeat, 2))
           /\ u.ant1_targets_seen = Cardinality(TargetsOfRepeat(u.repeat, 1))
           /\ u.ant2_targets_seen = Cardinality(TargetsOfRepeat(u.repeat, 2))
           /\ \A ant \in result.active_antennas, s \in RegisteredSuffixes :
                 LET v == Verdict(u, ant)
                     obs == Obs(u.repeat, s, ant)
                 IN  /\ v.seen_n[s] = Cardinality({ObsBeam(k) : k \in obs})
                     /\ s \in DOMAIN v.rssi =>
                           v.rssi[s] \in {ObsRssi(k, ant) : k \in obs}

\* within a run, results are only appended
ResultsOnlyGrow ==
    runs' = runs =>
       /\ IsPrefix(result.step_results, result'.step_results)
       /\ IsPrefix(result.tag_step_results, result'.tag_step_results)
       /\ IsPrefix(result.union_results, result'.union_results)

(***************************************************************************)
(* C38.  Repeats are aggregated independently.  The UnionResult of repeat  *)
(* r counts the EPCs and the targets of the steps executed in repeat r and *)
(* takes its per-beam observations from these steps only, and appending a  *)
(* result leaves all earlier StepResults and UnionResults unchanged.       *)
(***************************************************************************)
C38_RepeatsIndependent ==
    []UnionOfOwnSteps /\ [][ResultsOnlyGrow]_vars

\* a tag read in the first repeat and not in the second: the second union
\* has no EPC and the verdict MISS
C38_Witness ==
    /\ Len(result.union_results) = 2
    /\ 1 \in result.active_antennas
    /\ Cardinality(StepsOfRepeat(2)) >= 1
    /\ result.union_results[1].ant1_unique_epcs = 1
    /\ result.union_results[1].ant1_best_beam[Tag1.suffix] # "MISS"
    /\ result.union_results[2].ant1_unique_epcs = 0
    /\ result.union_results[2].ant1_targets_seen = 0
    /\ result.union_results[2].ant1_best_beam[Tag1.suffix] = "MISS"

\* a run executes at most repeats x beam states steps
StepsBounded == Len(result.step_results) <= Total

\* after a stop() during a run, at most the step in flight is completed
StopBounded ==
    stop_in_run =>
       /\ Len(result.step_results) <= Len(steps_at_stop) + 1
       /\ Len(result.step_results) <= started_at_stop

(***************************************************************************)
(* C39.  Termination and bounded response to stop.  Given that actuator    *)
(* writes and sleeps return, a run that has built its beam sequence always *)
(* returns, after at most repeats x beam states steps; once stop() has     *)
(* been called during a run, no step is started any more, so at most the   *)
(* one step in flight is completed before run returns.                     *)
(***************************************************************************)
C39_TerminationAndBoundedStop ==
    /\ []StepsBounded
    /\ []StopBounded
    /\ InRun ~> Returned

\* stop() was called while the second step was in flight: the step was
\* completed, no other was started, and the run has returned
C39_Witness ==
    /\ Returned
    /\ stop_in_run /\ stop_observed
    /\ Len(steps_at_stop) = 1
    /\ started_at_stop = 2
    /\ Len(result.step_results) = 2
    /\ Total >= 4
    /\ result.success

=============================================================================
